---- MODULE Spec2Model ----
(***************************************************************************)
(* Financial risk and fraud scoring pipeline: FinancialRatioService,      *)
(* ScoringService, FraudDetectionService, RiskManagementService and       *)
(* ForecastingService.                                                     *)
(*                                                                         *)
(* Every service is a static method on one FinancialStatement (plus an    *)
(* optional list of previous statements).  The state is the statement the *)
(* caller holds, the previous statements it passes, and the record each   *)
(* entry point returned.                                                   *)
(*                                                                         *)
(* Numbers.  Statement fields are integers.  A computed JavaScript number *)
(* is a record [n, d]: the rational n/d when d > 0, and +Infinity,        *)
(* -Infinity or NaN when d = 0 (n = 1, -1, 0).  Comparisons with the      *)
(* literals of the source are exact: an IEEE division is correctly        *)
(* rounded, so for operands far below 2^53 the double a/b compares with   *)
(* the double of a literal t exactly as the rational a/b compares with t. *)
(* The weighted final score is a sum of products with decimal weights,    *)
(* where rounding decides the rating at a band edge: it is computed in    *)
(* IEEE 754 binary64, round to nearest even (Double, DoubleAdd, ...).     *)
(***************************************************************************)
EXTENDS Integers, Sequences, FiniteSets, TLC

VARIABLES
    statement,           \* the FinancialStatement under analysis
    previousStatements,  \* the previousStatements argument (<<>>: none given)
    pc,                  \* "idle" before the call, then the entry point called
    ratios,              \* <<r>>: calculateAllRatios returned the list r
    categoryResult,      \* <<r>>: calculateCategoryScores returned r
    ratioAnalysis,       \* <<r>>: FinancialRatioService.analyzeStatement returned r
    fraudAnalysis,       \* <<r>>: FraudDetectionService.analyzeStatement returned r
    riskReport,          \* <<r>>: RiskManagementService.assessRisks returned r
    weightedScore,       \* <<r>>: ScoringService.calculateWeightedScore returned r
    statements,          \* the statement series passed to forecastRevenue
    periodsAhead,        \* the periodsAhead argument of forecastRevenue
    zScoreResult,        \* <<r>>: ForecastingService.calculateZScore returned r
    forecastResult,      \* <<r>>: outcome r of ForecastingService.forecastRevenue
    trendResult,         \* <<r>>: predictProfitabilityTrend returned r.trend
    calls                \* the scoring calls in flight at once, by call number

forecastVars == <<statements, periodsAhead, zScoreResult, forecastResult, trendResult>>

vars == <<statement, previousStatements, pc, ratios, categoryResult, ratioAnalysis,
          fraudAnalysis, riskReport, weightedScore, forecastVars, calls>>

(***************************************************************************)
(* Bounds of the model.                                                    *)
(***************************************************************************)
MaxVal == 5

(***************************************************************************)
(* Optional fields: <<>> is undefined, <<v>> is the number v.              *)
(***************************************************************************)
Undefined == <<>>

Has(x) == x # <<>>

Val(x) == x[1]

Opt(S) == {<<>>} \cup {<<v>> : v \in S}

\* JavaScript truthiness of an optional number: undefined and 0 are falsy.
Truthy(x) == Has(x) /\ Val(x) # 0

(***************************************************************************)
(* JavaScript numbers.                                                     *)
(***************************************************************************)
Abs(i) == IF i < 0 THEN 0 - i ELSE i

Sign(i) == IF i > 0 THEN 1 ELSE IF i < 0 THEN 0 - 1 ELSE 0

RECURSIVE GCD(_, _)
GCD(a, b) == IF b = 0 THEN a ELSE GCD(b, a % b)

\* The rational n/d (d > 0) in lowest terms.
Rat(n, d) ==
    LET g == GCD(Abs(n), d)
    IN  [n |-> n \div g, d |-> d \div g]

Int2Num(i) == [n |-> i, d |-> 1]

NaN == [n |-> 0, d |-> 0]

IsFinite(x) == x.d > 0

IsNaN(x) == x.d = 0 /\ x.n = 0

\* a / b
Div(a, b) ==
    IF IsNaN(a) \/ IsNaN(b) THEN NaN
    ELSE IF ~IsFinite(a)
         THEN IF ~IsFinite(b) THEN NaN
              ELSE [n |-> a.n * (IF b.n < 0 THEN 0 - 1 ELSE 1), d |-> 0]
    ELSE IF ~IsFinite(b) THEN Int2Num(0)
    ELSE IF b.n = 0 THEN [n |-> Sign(a.n), d |-> 0]
    ELSE Rat(Sign(b.n) * a.n * b.d, a.d * Abs(b.n))

\* a * b
Mul(a, b) ==
    IF IsNaN(a) \/ IsNaN(b) THEN NaN
    ELSE IF IsFinite(a) /\ IsFinite(b) THEN Rat(a.n * b.n, a.d * b.d)
    ELSE IF a.n = 0 \/ b.n = 0 THEN NaN
    ELSE [n |-> Sign(a.n) * Sign(b.n), d |-> 0]

\* a + b
Add(a, b) ==
    IF IsNaN(a) \/ IsNaN(b) THEN NaN
    ELSE IF IsFinite(a) /\ IsFinite(b) THEN Rat(a.n * b.d + b.n * a.d, a.d * b.d)
    ELSE IF ~IsFinite(a) /\ ~IsFinite(b)
         THEN IF a.n = b.n THEN a ELSE NaN
    ELSE IF IsFinite(a) THEN b ELSE a

Neg(a) == [n |-> 0 - a.n, d |-> a.d]

\* a - b
Sub(a, b) == Add(a, Neg(b))

\* a < b, a <= b, a > b, a >= b, a === b: all false on NaN.
Lt(a, b) ==
    /\ ~IsNaN(a) /\ ~IsNaN(b)
    /\ IF IsFinite(a) /\ IsFinite(b) THEN a.n * b.d < b.n * a.d
       ELSE IF IsFinite(a) THEN b.n > 0
       ELSE IF IsFinite(b) THEN a.n < 0
       ELSE a.n < b.n

NumEq(a, b) ==
    /\ ~IsNaN(a) /\ ~IsNaN(b)
    /\ IF IsFinite(a) /\ IsFinite(b) THEN a.n * b.d = b.n * a.d
       ELSE a.d = b.d /\ a.n = b.n

Le(a, b) == Lt(a, b) \/ NumEq(a, b)

Gt(a, b) == Lt(b, a)

Ge(a, b) == Le(b, a)

\* The literal n/d of the source, e.g. 1.5 is Lit(3, 2).
Lit(n, d) == Rat(n, d)

\* Math.min(a, b)
MathMin(a, b) ==
    IF IsNaN(a) \/ IsNaN(b) THEN NaN ELSE IF Lt(b, a) THEN b ELSE a

\* A statement field read as a number: undefined behaves as NaN in arithmetic.
Num(x) == IF Has(x) THEN Int2Num(Val(x)) ELSE NaN

(***************************************************************************)
(* FinancialStatement.                                                     *)
(***************************************************************************)
Fields ==
    {"assets", "liabilities", "equity", "current_assets", "current_liabilities",
     "fixed_assets", "inventory", "cash", "accounts_receivable",
     "retained_earnings", "revenue", "cogs", "gross_profit",
     "operating_expenses", "ebit", "interest_expense", "net_income",
     "operating_cf"}

\* A statement with only the two mandatory fields.
BaseStatement(a, l) ==
    [f \in Fields |->
        IF f = "assets" THEN <<a>> ELSE IF f = "liabilities" THEN <<l>> ELSE <<>>]

(***************************************************************************)
(* FinancialRatioService.                                                  *)
(***************************************************************************)
Ratio(name, category, value, status) ==
    [name |-> name, category |-> category, value |-> value, status |-> status]

\* x >= good ? 'Good' : x >= warn ? 'Warning' : 'Critical'
StatusAtLeast(x, good, warn) ==
    IF Ge(x, good) THEN "Good" ELSE IF Ge(x, warn) THEN "Warning" ELSE "Critical"

\* The same with the boundaries excluded: x < good, x < warn.
StatusBelow(x, good, warn) ==
    IF Lt(x, good) THEN "Good" ELSE IF Lt(x, warn) THEN "Warning" ELSE "Critical"

\* x <= good ? 'Good' : x <= warn ? 'Warning' : 'Critical'
StatusAtMost(x, good, warn) ==
    IF Le(x, good) THEN "Good" ELSE IF Le(x, warn) THEN "Warning" ELSE "Critical"

CurrentRatio(s) ==
    IF Truthy(s.current_assets) /\ Truthy(s.current_liabilities)
    THEN LET currentRatio == Div(Num(s.current_assets), Num(s.current_liabilities))
         IN  <<Ratio("Current Ratio", "Liquidity", currentRatio,
                     StatusAtLeast(currentRatio, Lit(3, 2), Lit(1, 1)))>>
    ELSE <<>>

QuickRatio(s) ==
    IF Truthy(s.current_assets) /\ Has(s.inventory) /\ Truthy(s.current_liabilities)
    THEN LET quickRatio == Div(Sub(Num(s.current_assets), Num(s.inventory)),
                               Num(s.current_liabilities))
         IN  <<Ratio("Quick Ratio", "Liquidity", quickRatio,
                     StatusAtLeast(quickRatio, Lit(1, 1), Lit(1, 2)))>>
    ELSE <<>>

CashRatio(s) ==
    IF Truthy(s.cash) /\ Truthy(s.current_liabilities)
    THEN LET cashRatio == Div(Num(s.cash), Num(s.current_liabilities))
         IN  <<Ratio("Cash Ratio", "Liquidity", cashRatio,
                     StatusAtLeast(cashRatio, Lit(1, 5), Lit(1, 10)))>>
    ELSE <<>>

CalculateLiquidityRatios(s) == CurrentRatio(s) \o QuickRatio(s) \o CashRatio(s)

\* const equity = statement.equity || statement.assets - statement.liabilities
LeverageEquity(s) ==
    IF Truthy(s.equity) THEN Num(s.equity)
    ELSE Sub(Num(s.assets), Num(s.liabilities))

DebtToEquity(s) ==
    LET equity == LeverageEquity(s)
    IN  IF Gt(equity, Int2Num(0))
        THEN LET debtToEquity == Div(Num(s.liabilities), equity)
             IN  <<Ratio("Debt to Equity", "Leverage", debtToEquity,
                         StatusAtMost(debtToEquity, Lit(2, 1), Lit(3, 1)))>>
        ELSE <<>>

\* Pushed unconditionally.
DebtRatio(s) ==
    LET debtRatio == Div(Num(s.liabilities), Num(s.assets))
    IN  <<Ratio("Debt Ratio", "Leverage", debtRatio,
                StatusAtMost(debtRatio, Lit(1, 2), Lit(7, 10)))>>

TimesInterestEarned(s) ==
    IF Truthy(s.ebit) /\ Truthy(s.interest_expense) /\ Val(s.interest_expense) > 0
    THEN LET tie == Div(Num(s.ebit), Num(s.interest_expense))
         IN  <<Ratio("Times Interest Earned", "Leverage", tie,
                     StatusAtLeast(tie, Lit(2, 1), Lit(1, 1)))>>
    ELSE <<>>

CalculateLeverageRatios(s) == DebtToEquity(s) \o DebtRatio(s) \o TimesInterestEarned(s)

NetProfitMargin(s) ==
    IF Truthy(s.net_income) /\ Truthy(s.revenue) /\ Val(s.revenue) > 0
    THEN LET netMargin == Div(Num(s.net_income), Num(s.revenue))
         IN  <<Ratio("Net Profit Margin", "Profitability", netMargin,
                     StatusAtLeast(netMargin, Lit(1, 10), Lit(1, 20)))>>
    ELSE <<>>

ReturnOnAssets(s) ==
    IF Truthy(s.net_income) /\ Gt(Num(s.assets), Int2Num(0))
    THEN LET roa == Div(Num(s.net_income), Num(s.assets))
         IN  <<Ratio("Return on Assets (ROA)", "Profitability", roa,
                     StatusAtLeast(roa, Lit(1, 20), Lit(1, 50)))>>
    ELSE <<>>

\* const equity = statement.equity || statement.assets - statement.liabilities
RoeEquity(s) ==
    IF Truthy(s.equity) THEN Num(s.equity)
    ELSE Sub(Num(s.assets), Num(s.liabilities))

ReturnOnEquity(s) ==
    IF Truthy(s.net_income)
    THEN LET equity == RoeEquity(s)
         IN  IF Gt(equity, Int2Num(0))
             THEN LET roe == Div(Num(s.net_income), equity)
                  IN  <<Ratio("Return on Equity (ROE)", "Profitability", roe,
                              StatusAtLeast(roe, Lit(3, 20), Lit(2, 25)))>>
             ELSE <<>>
    ELSE <<>>

GrossProfitMargin(s) ==
    IF Truthy(s.gross_profit) /\ Truthy(s.revenue) /\ Val(s.revenue) > 0
    THEN LET grossMargin == Div(Num(s.gross_profit), Num(s.revenue))
         IN  <<Ratio("Gross Profit Margin", "Profitability", grossMargin,
                     StatusAtLeast(grossMargin, Lit(3, 10), Lit(1, 5)))>>
    ELSE <<>>

CalculateProfitabilityRatios(s) ==
    NetProfitMargin(s) \o ReturnOnAssets(s) \o ReturnOnEquity(s) \o GrossProfitMargin(s)

AssetTurnover(s) ==
    IF Truthy(s.revenue) /\ Gt(Num(s.assets), Int2Num(0))
    THEN LET assetTurnover == Div(Num(s.revenue), Num(s.assets))
         IN  <<Ratio("Asset Turnover", "Efficiency", assetTurnover,
                     StatusAtLeast(assetTurnover, Lit(1, 1), Lit(1, 2)))>>
    ELSE <<>>

InventoryTurnover(s) ==
    IF Truthy(s.cogs) /\ Truthy(s.inventory) /\ Val(s.inventory) > 0
    THEN LET inventoryTurnover == Div(Num(s.cogs), Num(s.inventory))
         IN  <<Ratio("Inventory Turnover", "Efficiency", inventoryTurnover,
                     StatusAtLeast(inventoryTurnover, Lit(5, 1), Lit(3, 1)))>>
    ELSE <<>>

ReceivablesTurnover(s) ==
    IF Truthy(s.revenue) /\ Truthy(s.accounts_receivable)
       /\ Val(s.accounts_receivable) > 0
    THEN LET receivablesTurnover == Div(Num(s.revenue), Num(s.accounts_receivable))
         IN  <<Ratio("Receivables Turnover", "Efficiency", receivablesTurnover,
                     StatusAtLeast(receivablesTurnover, Lit(8, 1), Lit(5, 1)))>>
    ELSE <<>>

CalculateEfficiencyRatios(s) ==
    AssetTurnover(s) \o InventoryTurnover(s) \o ReceivablesTurnover(s)

CalculateAllRatios(s) ==
    CalculateLiquidityRatios(s) \o CalculateLeverageRatios(s)
        \o CalculateProfitabilityRatios(s) \o CalculateEfficiencyRatios(s)

\* ratios.filter((r) => r.category === category)
FilterCategory(rs, category) == SelectSeq(rs, LAMBDA r : r.category = category)

\* scoreRatio with no points for a Critical ratio
ScoreRatioCriticalZero(ratio) ==
    IF ratio.status = "Good" THEN 100
    ELSE IF ratio.status = "Warning" THEN 60
    ELSE 0

ScoreRatio(ratio) ==
    IF ratio.status = "Good" THEN 100
    ELSE IF ratio.status = "Warning" THEN 60
    ELSE 20

RECURSIVE SumSeq(_)
SumSeq(q) == IF q = <<>> THEN 0 ELSE Head(q) + SumSeq(Tail(q))

\* averageScore(scores)
AverageScore(scores) ==
    IF Len(scores) = 0 THEN Int2Num(0)
    ELSE Div(Int2Num(SumSeq(scores)), Int2Num(Len(scores)))

MapScoreRatio(rs) == [i \in 1..Len(rs) |-> ScoreRatio(rs[i])]

CalculateCategoryScores(rs) ==
    [liquidity     |-> AverageScore(MapScoreRatio(FilterCategory(rs, "Liquidity"))),
     leverage      |-> AverageScore(MapScoreRatio(FilterCategory(rs, "Leverage"))),
     profitability |-> AverageScore(MapScoreRatio(FilterCategory(rs, "Profitability"))),
     efficiency    |-> AverageScore(MapScoreRatio(FilterCategory(rs, "Efficiency")))]

CalculateOverallScore(categoryScores) ==
    Add(Add(Add(Mul(categoryScores.liquidity, Lit(2, 10)),
                Mul(categoryScores.leverage, Lit(2, 10))),
            Mul(categoryScores.profitability, Lit(4, 10))),
        Mul(categoryScores.efficiency, Lit(2, 10)))

\* FinancialRatioService.analyzeStatement
RatioAnalyzeStatement(s) ==
    LET rs == CalculateAllRatios(s)
        categoryScores == CalculateCategoryScores(rs)
    IN  [ratios |-> rs,
         overallScore |-> CalculateOverallScore(categoryScores),
         categoryScores |-> categoryScores]

(***************************************************************************)
(* FraudDetectionService.                                                  *)
(***************************************************************************)
Indicator(flagType, severity, score, details) ==
    [flagType |-> flagType, severity |-> severity, score |-> score,
     details |-> details]

\* The fields benfordLawAnalysis reads, in the order of its `fields` array.
BenfordFields ==
    <<"assets", "liabilities", "current_assets", "current_liabilities", "revenue",
      "net_income", "cash", "inventory", "accounts_receivable">>

\* The same without the sign test: if (num) numbers.push(num)
BenfordNumbersAnySign(s) ==
    LET picked == SelectSeq(BenfordFields, LAMBDA f : Truthy(s[f]))
    IN  [i \in 1..Len(picked) |-> Val(s[picked[i]])]

\* fields.forEach((num) => { if (num && num > 0) numbers.push(num) })
BenfordNumbers(s) ==
    LET picked == SelectSeq(BenfordFields,
                            LAMBDA f : Truthy(s[f]) /\ Val(s[f]) > 0)
    IN  [i \in 1..Len(picked) |-> Val(s[picked[i]])]

\* parseInt(String(Math.abs(num))[0]) for an integer num >= 1
RECURSIVE FirstDigit(_)
FirstDigit(num) == IF num < 10 THEN num ELSE FirstDigit(num \div 10)

\* firstDigitCounts[digit] after the counting loop
FirstDigitCounts(numbers) ==
    [digit \in 1..9 |->
        Cardinality({i \in 1..Len(numbers) : FirstDigit(Abs(numbers[i])) = digit})]

\* benfordExpected[1..9], in tenths of a percent
BenfordExpected == <<301, 176, 125, 97, 79, 67, 58, 51, 46>>

RECURSIVE SumTo(_, _)
SumTo(f, k) == IF k = 0 THEN 0 ELSE f[k] + SumTo(f, k - 1)

(***************************************************************************)
(* The chi-square test.  With expected_i = benfordExpected[i]/100 * total   *)
(* and p_i = 1000 * benfordExpected[i]/100,                                 *)
(*   chiSquare = SUM (o_i - expected_i)^2 / expected_i                      *)
(*             = (1000/total) * SUM o_i^2/p_i - 2 * SUM o_i + total,        *)
(* as SUM p_i = 1000.  Hence chiSquare > c iff                              *)
(*   10^7 * SUM o_i^2/p_i > total * (10^4 * c + 10^4 * (2 * SUM o_i - total)). *)
(* ChiScaled is the left side with each term rounded down (at most 9 below *)
(* the exact sum); ChiBound is the right side for c = criticalValue * k/2. *)
(* For every digit count of 5 to 12 numbers the rounded and the exact sum   *)
(* lie on the same side of ChiBound (enumerated), so the rounding decides   *)
(* no comparison.                                                           *)
(***************************************************************************)
ChiScaled(counts) ==
    SumTo([i \in 1..9 |-> (10000000 * counts[i] * counts[i]) \div BenfordExpected[i]], 9)

\* criticalValue = 15.51, as 10^4 * criticalValue
CriticalValue == 155100

\* total * 10^4 * (criticalValue * twiceFactor / 2 + 2 * SUM o_i - total)
ChiBound(counts, total, twiceFactor) ==
    total * ((CriticalValue * twiceFactor) \div 2 + 10000 * (2 * SumTo(counts, 9) - total))

\* chiSquare > criticalValue * twiceFactor / 2
ChiSquareExceeds(counts, total, twiceFactor) ==
    ChiScaled(counts) > ChiBound(counts, total, twiceFactor)

BenfordLawAnalysis(s) ==
    LET numbers == BenfordNumbers(s)
        total == Len(numbers)
        counts == FirstDigitCounts(numbers)
    IN  IF total < 5
        THEN Indicator("Benford's Law", "Low", 0, {"sampleSize"})
        ELSE LET details == {"chiSquare", "criticalValue", "actualDistribution",
                             "benfordExpected"}
             IN  IF ChiSquareExceeds(counts, total, 4)
                 THEN Indicator("Benford's Law", "Critical", 80, details)
                 ELSE IF ChiSquareExceeds(counts, total, 3)
                 THEN Indicator("Benford's Law", "High", 60, details)
                 ELSE IF ChiSquareExceeds(counts, total, 2)
                 THEN Indicator("Benford's Law", "Medium", 40, details)
                 ELSE Indicator("Benford's Law", "Low", 0, details)

QualityOfEarnings(s) ==
    IF ~Truthy(s.operating_cf) \/ ~Truthy(s.net_income) \/ Val(s.net_income) = 0
    THEN Indicator("Quality of Earnings", "Low", 0, {})
    ELSE LET ratio == Div(Num(s.operating_cf), Num(s.net_income))
             details == {"ratio", "operating_cf", "net_income", "threshold"}
         IN  IF Lt(ratio, Lit(1, 2))
             THEN Indicator("Quality of Earnings", "Critical", 90, details)
             ELSE IF Lt(ratio, Lit(8, 10))
             THEN Indicator("Quality of Earnings", "High", 60, details)
             ELSE IF Lt(ratio, Lit(1, 1))
             THEN Indicator("Quality of Earnings", "Medium", 30, details)
             ELSE Indicator("Quality of Earnings", "Low", 0, details)

\* (current - previous) / previous
Growth(current, previous) == Div(Sub(Num(current), Num(previous)), Num(previous))

ReceivableGrowthAnalysis(current, previous) ==
    IF \/ ~Truthy(current.accounts_receivable)
       \/ ~Truthy(previous.accounts_receivable)
       \/ ~Truthy(current.revenue)
       \/ ~Truthy(previous.revenue)
    THEN Indicator("Receivable Growth", "Low", 0, {})
    ELSE LET arGrowth == Growth(current.accounts_receivable,
                                previous.accounts_receivable)
             salesGrowth == Growth(current.revenue, previous.revenue)
         IN  IF NumEq(salesGrowth, Int2Num(0))
             THEN Indicator("Receivable Growth", "Low", 0, {"arGrowth", "salesGrowth"})
             ELSE LET ratio == Div(arGrowth, salesGrowth)
                      details == {"ratio", "arGrowth", "salesGrowth", "threshold"}
                  IN  IF Gt(ratio, Lit(2, 1))
                      THEN Indicator("Receivable Growth", "Critical", 85, details)
                      ELSE IF Gt(ratio, Lit(3, 2))
                      THEN Indicator("Receivable Growth", "High", 65, details)
                      ELSE IF Gt(ratio, Lit(12, 10))
                      THEN Indicator("Receivable Growth", "Medium", 40, details)
                      ELSE Indicator("Receivable Growth", "Low", 0, details)

AssetInflationAnalysis(current, previous) ==
    IF \/ ~Truthy(current.fixed_assets)
       \/ ~Truthy(previous.fixed_assets)
       \/ ~Truthy(current.revenue)
       \/ ~Truthy(previous.revenue)
    THEN Indicator("Asset Inflation", "Low", 0, {})
    ELSE LET faGrowth == Growth(current.fixed_assets, previous.fixed_assets)
             revenueGrowth == Growth(current.revenue, previous.revenue)
             difference == Sub(faGrowth, revenueGrowth)
             details == {"faGrowth", "revenueGrowth", "difference", "threshold"}
         IN  IF Gt(difference, Lit(30, 100))
             THEN Indicator("Asset Inflation", "Critical", 75, details)
             ELSE IF Gt(difference, Lit(20, 100))
             THEN Indicator("Asset Inflation", "High", 55, details)
             ELSE IF Gt(difference, Lit(15, 100))
             THEN Indicator("Asset Inflation", "Medium", 35, details)
             ELSE Indicator("Asset Inflation", "Low", 0, details)

\* Math.abs(x)
MathAbs(x) == [n |-> Abs(x.n), d |-> x.d]

AccrualRatio(s) ==
    IF ~Truthy(s.net_income) \/ ~Truthy(s.operating_cf) \/ ~Truthy(s.assets)
    THEN Indicator("Accrual Ratio", "Low", 0, {})
    ELSE LET accrual == Div(Sub(Num(s.net_income), Num(s.operating_cf)), Num(s.assets))
             details == {"accrualRatio", "net_income", "operating_cf",
                         "total_assets", "threshold"}
         IN  IF Gt(MathAbs(accrual), Lit(15, 100))
             THEN Indicator("Accrual Ratio", "Critical", 80, details)
             ELSE IF Gt(MathAbs(accrual), Lit(12, 100))
             THEN Indicator("Accrual Ratio", "High", 60, details)
             ELSE IF Gt(MathAbs(accrual), Lit(10, 100))
             THEN Indicator("Accrual Ratio", "Medium", 35, details)
             ELSE Indicator("Accrual Ratio", "Low", 0, details)

IndicatorScores(indicators) == [i \in 1..Len(indicators) |-> indicators[i].score]

\* The mean taken over the flagged indicators only.
OverallFraudScoreOfFlagged(indicators) ==
    LET flagged == SelectSeq(indicators, LAMBDA i : i.score > 0)
    IN  IF Len(flagged) = 0 THEN Int2Num(0)
        ELSE MathMin(Int2Num(100),
                     Div(Int2Num(SumSeq(IndicatorScores(flagged))),
                         Int2Num(Len(flagged))))

CalculateOverallFraudScore(indicators) ==
    IF Len(indicators) = 0 THEN Int2Num(0)
    ELSE MathMin(Int2Num(100),
                 Div(Int2Num(SumSeq(IndicatorScores(indicators))),
                     Int2Num(Len(indicators))))

\* determineRiskLevel(score), the same in both services
\* determineRiskLevel with the boundaries excluded: score > 70, > 50, > 30
RiskLevelAbove(score) ==
    IF Gt(score, Int2Num(70)) THEN "Critical"
    ELSE IF Gt(score, Int2Num(50)) THEN "High"
    ELSE IF Gt(score, Int2Num(30)) THEN "Medium"
    ELSE "Low"

FraudDetermineRiskLevel(score) ==
    IF Ge(score, Int2Num(70)) THEN "Critical"
    ELSE IF Ge(score, Int2Num(50)) THEN "High"
    ELSE IF Ge(score, Int2Num(30)) THEN "Medium"
    ELSE "Low"

\* The local `indicators` of analyzeStatement, before the final filter.
ComputedIndicators(s, prevs) ==
    <<BenfordLawAnalysis(s), QualityOfEarnings(s)>>
        \o (IF Len(prevs) > 0 THEN <<ReceivableGrowthAnalysis(s, prevs[1])>> ELSE <<>>)
        \o (IF Len(prevs) > 0 THEN <<AssetInflationAnalysis(s, prevs[1])>> ELSE <<>>)
        \o <<AccrualRatio(s)>>

\* indicators.filter((i) => i.score > 0)
FlaggedIndicators(indicators) == SelectSeq(indicators, LAMBDA i : i.score > 0)

\* FraudDetectionService.analyzeStatement; `computed` is the local list the
\* score was calculated from.
FraudAnalyzeStatement(s, prevs) ==
    LET indicators == ComputedIndicators(s, prevs)
        overallFraudScore == CalculateOverallFraudScore(indicators)
    IN  [overallFraudScore |-> overallFraudScore,
         indicators |-> FlaggedIndicators(indicators),
         riskLevel |-> FraudDetermineRiskLevel(overallFraudScore),
         computed |-> indicators]

(***************************************************************************)
(* RiskManagementService.                                                  *)
(***************************************************************************)
Assessment(riskType, score, level, metrics) ==
    [riskType |-> riskType, score |-> score, level |-> level, metrics |-> metrics]

\* const equity = statement.equity || statement.assets - statement.liabilities
FinancialRiskEquity(s) ==
    IF Truthy(s.equity) THEN Num(s.equity)
    ELSE Sub(Num(s.assets), Num(s.liabilities))

Infinity == [n |-> 1, d |-> 0]

AssessFinancialRisk(s) ==
    LET equity == FinancialRiskEquity(s)
        debtToEquity == IF Gt(equity, Int2Num(0)) THEN Div(Num(s.liabilities), equity)
                        ELSE Infinity
        metrics == {"debtToEquity", "totalLiabilities", "equity", "threshold"}
    IN  IF Gt(debtToEquity, Lit(5, 1))
        THEN Assessment("Financial", 95, "Critical", metrics)
        ELSE IF Gt(debtToEquity, Lit(3, 1))
        THEN Assessment("Financial", 75, "High", metrics)
        ELSE IF Gt(debtToEquity, Lit(2, 1))
        THEN Assessment("Financial", 45, "Medium", metrics)
        ELSE Assessment("Financial", 15, "Low", metrics)

\* x || 0
OrZero(x) == IF Truthy(x) THEN Num(x) ELSE Int2Num(0)

AssessLiquidityRisk(s) ==
    IF ~Truthy(s.current_liabilities) \/ Val(s.current_liabilities) = 0
    THEN Assessment("Liquidity", 0, "Low", {})
    ELSE LET currentAssets == OrZero(s.current_assets)
             currentRatio == Div(currentAssets, Num(s.current_liabilities))
             metrics == {"currentRatio", "cashRatio", "cash", "currentAssets",
                         "currentLiabilities", "threshold"}
         IN  IF Lt(currentRatio, Lit(8, 10))
             THEN Assessment("Liquidity", 90, "Critical", metrics)
             ELSE IF Lt(currentRatio, Lit(1, 1))
             THEN Assessment("Liquidity", 70, "High", metrics)
             ELSE IF Lt(currentRatio, Lit(3, 2))
             THEN Assessment("Liquidity", 40, "Medium", metrics)
             ELSE Assessment("Liquidity", 15, "Low", metrics)

AssessOperationalRisk(s) ==
    IF ~Truthy(s.revenue) \/ Val(s.revenue) = 0 \/ ~Truthy(s.operating_expenses)
    THEN Assessment("Operational", 0, "Low", {})
    ELSE LET opexRatio == Div(Num(s.operating_expenses), Num(s.revenue))
             metrics == {"opexRatio", "operatingMargin", "operating_expenses",
                         "revenue", "threshold"}
         IN  IF Gt(opexRatio, Lit(9, 10))
             THEN Assessment("Operational", 85, "Critical", metrics)
             ELSE IF Gt(opexRatio, Lit(75, 100))
             THEN Assessment("Operational", 65, "High", metrics)
             ELSE IF Gt(opexRatio, Lit(60, 100))
             THEN Assessment("Operational", 40, "Medium", metrics)
             ELSE Assessment("Operational", 15, "Low", metrics)

\* Math.min(a, b) on integers
IntMin(a, b) == IF b < a THEN b ELSE a

AssessMarketRisk(s) ==
    LET revenueToAssets == Div(Num(s.revenue), Num(s.assets))
        profitability == IF Truthy(s.net_income)
                         THEN Div(Num(s.net_income), Num(s.revenue))
                         ELSE Int2Num(0)
        base == IF Lt(revenueToAssets, Lit(3, 10)) THEN [score |-> 70, level |-> "High"]
                ELSE IF Lt(revenueToAssets, Lit(5, 10))
                THEN [score |-> 45, level |-> "Medium"]
                ELSE [score |-> 20, level |-> "Low"]
        score == IF Lt(profitability, Int2Num(0)) THEN base.score + 20 ELSE base.score
        level == IF Lt(profitability, Int2Num(0))
                 THEN IF score >= 70 THEN "Critical"
                      ELSE IF score >= 50 THEN "High" ELSE "Medium"
                 ELSE base.level
    IN  Assessment("Market", IntMin(100, score), level,
                   {"revenueToAssets", "profitability", "revenue", "assets"})

\* weights[assessment.riskType] || 0.25, in hundredths
RiskWeight(riskType) ==
    IF riskType = "Financial" THEN 30
    ELSE IF riskType = "Liquidity" THEN 30
    ELSE IF riskType = "Operational" THEN 25
    ELSE IF riskType = "Market" THEN 15
    ELSE 25

CalculateOverallRisk(assessments) ==
    IF Len(assessments) = 0 THEN Int2Num(0)
    ELSE LET totalScore ==
                 SumSeq([i \in 1..Len(assessments) |->
                            assessments[i].score * RiskWeight(assessments[i].riskType)])
             totalWeight ==
                 SumSeq([i \in 1..Len(assessments) |->
                            RiskWeight(assessments[i].riskType)])
         IN  IF totalWeight > 0
             THEN Div(Rat(totalScore, 100), Rat(totalWeight, 100))
             ELSE Int2Num(0)

RiskDetermineRiskLevel(score) ==
    IF Ge(score, Int2Num(70)) THEN "Critical"
    ELSE IF Ge(score, Int2Num(50)) THEN "High"
    ELSE IF Ge(score, Int2Num(30)) THEN "Medium"
    ELSE "Low"

\* RiskManagementService.assessRisks
AssessRisks(s) ==
    LET assessments ==
            <<AssessFinancialRisk(s), AssessLiquidityRisk(s), AssessOperationalRisk(s)>>
                \o (IF Truthy(s.revenue) THEN <<AssessMarketRisk(s)>> ELSE <<>>)
        overallRiskScore == CalculateOverallRisk(assessments)
    IN  [overallRiskScore |-> overallRiskScore,
         riskLevel |-> RiskDetermineRiskLevel(overallRiskScore),
         assessments |-> assessments]

(***************************************************************************)
(* ScoringService.                                                         *)
(***************************************************************************)
\* Math.round(x * 100) / 100 for a finite x
Round2(x) == Rat((200 * x.n + x.d) \div (2 * x.d), 100)

(***************************************************************************)
(* The final score is a sum of products of doubles, and the rating is      *)
(* decided on that double, so here the arithmetic is IEEE 754 binary64:    *)
(* every operation returns the double nearest the exact result, ties to    *)
(* even.  A non-negative double is a record [m, e] standing for m * 2^e,  *)
(* with m a natural number of at most 53 bits (or 2^53), held as a         *)
(* little-endian sequence of 14-bit limbs.                                 *)
(***************************************************************************)
Limb == 2^14

\* op(x, y) with both operands evaluated before the operation, as the source
\* evaluates them
OnValues(op(_, _), x, y) == CHOOSE r \in {op(a, b) : a \in {x}, b \in {y}} : TRUE

RECURSIVE BigNorm(_)
BigNorm(a) ==
    IF a # <<>> /\ a[Len(a)] = 0 THEN BigNorm(SubSeq(a, 1, Len(a) - 1)) ELSE a

RECURSIVE BigOf(_)
BigOf(n) == IF n = 0 THEN <<>> ELSE <<n % Limb>> \o BigOf(n \div Limb)

RECURSIVE BigToInt(_)
BigToInt(a) == IF a = <<>> THEN 0 ELSE a[1] + Limb * BigToInt(Tail(a))

LimbAt(a, i) == IF i <= Len(a) THEN a[i] ELSE 0

RECURSIVE BigAddFrom(_, _, _, _)
BigAddFrom(a, b, i, carry) ==
    IF i > Len(a) /\ i > Len(b) THEN BigOf(carry)
    ELSE LET t == LimbAt(a, i) + LimbAt(b, i) + carry
         IN  <<t % Limb>> \o BigAddFrom(a, b, i + 1, t \div Limb)

BigAdd(a, b) == BigAddFrom(a, b, 1, 0)

\* a - b for a >= b
RECURSIVE BigSubFrom(_, _, _, _)
BigSubFrom(a, b, i, borrow) ==
    IF i > Len(a) THEN <<>>
    ELSE LET t == a[i] - LimbAt(b, i) - borrow
         IN  <<t % Limb>> \o BigSubFrom(a, b, i + 1, IF t < 0 THEN 1 ELSE 0)

BigSub(a, b) == BigNorm(BigSubFrom(a, b, 1, 0))

\* a * k for a natural k of at most 16 bits
RECURSIVE BigMulSmallFrom(_, _, _, _)
BigMulSmallFrom(a, k, i, carry) ==
    IF i > Len(a) THEN BigOf(carry)
    ELSE LET t == a[i] * k + carry
         IN  <<t % Limb>> \o BigMulSmallFrom(a, k, i + 1, t \div Limb)

BigMulSmall(a, k) == BigNorm(BigMulSmallFrom(a, k, 1, 0))

BigShiftLimbs(a, n) == IF a = <<>> THEN <<>> ELSE [i \in 1..n |-> 0] \o a

RECURSIVE BigMulFrom(_, _, _)
BigMulFrom(a, b, i) ==
    IF i > Len(b) THEN <<>>
    ELSE BigAdd(BigShiftLimbs(BigMulSmall(a, b[i]), i - 1), BigMulFrom(a, b, i + 1))

BigMul(a, b) == BigMulFrom(a, b, 1)

\* Quotient and remainder of a by a natural k of 1 to 2^14, from limb i down.
RECURSIVE BigDivSmallFrom(_, _, _, _)
BigDivSmallFrom(a, k, i, r) ==
    IF i = 0 THEN [q |-> <<>>, r |-> r]
    ELSE LET t == r * Limb + a[i]
             rest == BigDivSmallFrom(a, k, i - 1, t % k)
         IN  [q |-> rest.q \o <<t \div k>>, r |-> rest.r]

BigDivSmall(a, k) ==
    LET x == BigDivSmallFrom(a, k, Len(a), 0) IN [q |-> BigNorm(x.q), r |-> x.r]

\* a * 2^bits
BigShl(a, bits) == BigShiftLimbs(BigMulSmall(a, 2^(bits % 14)), bits \div 14)

\* floor(a / 2^bits)
BigShr(a, bits) ==
    IF bits \div 14 >= Len(a) THEN <<>>
    ELSE BigDivSmall(SubSeq(a, bits \div 14 + 1, Len(a)), 2^(bits % 14)).q

RECURSIVE BitLen(_)
BitLen(n) == IF n = 0 THEN 0 ELSE 1 + BitLen(n \div 2)

BigBitLen(a) == IF a = <<>> THEN 0 ELSE 14 * (Len(a) - 1) + BitLen(a[Len(a)])

BigLt(a, b) ==
    IF Len(a) # Len(b) THEN Len(a) < Len(b)
    ELSE \E i \in 1..Len(a) : /\ a[i] < b[i]
                              /\ \A j \in (i + 1)..Len(a) : a[j] = b[j]

\* a / 2^bits rounded to the nearest integer, ties to even
BigRoundShift(a, bits) ==
    IF bits = 0 THEN a
    ELSE LET q == BigShr(a, bits)
             rem == BigSub(a, BigShl(q, bits))
             half == BigShl(<<1>>, bits - 1)
         IN  IF BigLt(half, rem) \/ (rem = half /\ LimbAt(q, 1) % 2 = 1)
             THEN BigAdd(q, <<1>>)
             ELSE q

\* The double nearest a * 2^e
Double(a, e) ==
    IF BigBitLen(a) <= 53 THEN [m |-> a, e |-> e]
    ELSE [m |-> BigRoundShift(a, BigBitLen(a) - 53), e |-> e + BigBitLen(a) - 53]

\* The double of a finite rational x >= 0 with a denominator of at most 2^14:
\* the value of the correctly rounded division x.n / x.d, and of a decimal
\* literal.  The quotient is taken to 70 binary places with a sticky bit.
DoubleOf(x) ==
    LET Quotient(n, d) ==
            LET scaled == BigDivSmall(BigShl(BigOf(n), 70), d)
                sticky == IF scaled.r = 0 THEN <<>> ELSE <<1>>
            IN  OnValues(Double, BigAdd(BigShl(scaled.q, 1), sticky), 0 - 71)
    IN  OnValues(Quotient, x.n, x.d)

DoubleMul(x, y) ==
    OnValues(LAMBDA a, b : OnValues(Double, BigMul(a.m, b.m), a.e + b.e), x, y)

DoubleAdd(x, y) ==
    LET Sum(a, b) ==
            LET e == IntMin(a.e, b.e)
            IN  OnValues(Double, BigAdd(BigShl(a.m, a.e - e), BigShl(b.m, b.e - e)), e)
    IN  OnValues(Sum, x, y)

\* x - y for x >= y
DoubleSub(x, y) ==
    LET Difference(a, b) ==
            LET e == IntMin(a.e, b.e)
            IN  OnValues(Double, BigSub(BigShl(a.m, a.e - e), BigShl(b.m, b.e - e)), e)
    IN  OnValues(Difference, x, y)

\* x >= n for an integer n >= 0
DoubleGe(x, n) ==
    LET e == IntMin(x.e, 0)
    IN  ~BigLt(BigShl(x.m, x.e - e), BigShl(BigOf(n), 0 - e))

\* Math.round(x) for a double x >= 0: floor(x + 1/2)
DoubleRound(x) ==
    IF x.e >= 0 THEN BigToInt(BigShl(x.m, x.e))
    ELSE BigToInt(BigShr(BigAdd(BigShl(x.m, 1), BigShl(<<1>>, 0 - x.e)), 1 - x.e))

\* Math.round(x * 100) / 100 for a double x >= 0
DoubleRound2(x) == Rat(DoubleRound(DoubleMul(x, DoubleOf(Int2Num(100)))), 100)

CalculateRating(score) ==
    IF DoubleGe(score, 95) THEN "AAA"
    ELSE IF DoubleGe(score, 90) THEN "AA"
    ELSE IF DoubleGe(score, 80) THEN "A"
    ELSE IF DoubleGe(score, 70) THEN "BBB"
    ELSE IF DoubleGe(score, 60) THEN "BB"
    ELSE IF DoubleGe(score, 50) THEN "B"
    ELSE IF DoubleGe(score, 40) THEN "CCC"
    ELSE IF DoubleGe(score, 30) THEN "CC"
    ELSE IF DoubleGe(score, 20) THEN "C"
    ELSE "D"

\* finalScore with the profitability weight of calculateOverallScore (0.4)
FinalScoreOverallWeights(liquidityIndex, leverageIndex, profitabilityIndex, efficiencyIndex, fraudRiskIndex) ==
    DoubleAdd(DoubleAdd(DoubleAdd(DoubleAdd(
        DoubleMul(liquidityIndex, DoubleOf(Lit(2, 10))),
        DoubleMul(leverageIndex, DoubleOf(Lit(2, 10)))),
        DoubleMul(profitabilityIndex, DoubleOf(Lit(4, 10)))),
        DoubleMul(efficiencyIndex, DoubleOf(Lit(2, 10)))),
        DoubleMul(fraudRiskIndex, DoubleOf(Lit(1, 10))))

\* finalScore before rounding, summed from left to right
FinalScore(liquidityIndex, leverageIndex, profitabilityIndex, efficiencyIndex, fraudRiskIndex) ==
    DoubleAdd(DoubleAdd(DoubleAdd(DoubleAdd(
        DoubleMul(liquidityIndex, DoubleOf(Lit(2, 10))),
        DoubleMul(leverageIndex, DoubleOf(Lit(2, 10)))),
        DoubleMul(profitabilityIndex, DoubleOf(Lit(3, 10)))),
        DoubleMul(efficiencyIndex, DoubleOf(Lit(2, 10)))),
        DoubleMul(fraudRiskIndex, DoubleOf(Lit(1, 10))))

\* calculateWeightedScore from the two analyses on: the part that runs when
\* the await of the fraud analysis resumes.
WeightedScoreOf(ratioAnalysisR, fraudAnalysisR) ==
    LET liquidityIndex == DoubleOf(ratioAnalysisR.categoryScores.liquidity)
        leverageIndex == DoubleOf(ratioAnalysisR.categoryScores.leverage)
        profitabilityIndex == DoubleOf(ratioAnalysisR.categoryScores.profitability)
        efficiencyIndex == DoubleOf(ratioAnalysisR.categoryScores.efficiency)
        fraudRiskIndex == DoubleSub(DoubleOf(Int2Num(100)),
                                    DoubleOf(fraudAnalysisR.overallFraudScore))
        finalScore == FinalScore(liquidityIndex, leverageIndex, profitabilityIndex,
                                 efficiencyIndex, fraudRiskIndex)
    IN  [finalScore |-> DoubleRound2(finalScore),
         liquidityIndex |-> DoubleRound2(liquidityIndex),
         leverageIndex |-> DoubleRound2(leverageIndex),
         profitabilityIndex |-> DoubleRound2(profitabilityIndex),
         efficiencyIndex |-> DoubleRound2(efficiencyIndex),
         fraudRiskIndex |-> DoubleRound2(fraudRiskIndex),
         rating |-> CalculateRating(finalScore)]

\* ScoringService.calculateWeightedScore
CalculateWeightedScore(s, prevs) ==
    OnValues(WeightedScoreOf, RatioAnalyzeStatement(s), FraudAnalyzeStatement(s, prevs))

(***************************************************************************)
(* ForecastingService.calculateZScore.  The sum is exact here; the source  *)
(* adds doubles, which can differ from it only in the last bits.           *)
(***************************************************************************)
\* const equity = statement.equity || totalAssets - totalLiabilities
ZScoreEquity(s) ==
    IF Truthy(s.equity) THEN Num(s.equity)
    ELSE Sub(Num(s.assets), Num(s.liabilities))

\* statement.retained_earnings || statement.net_income || 0
ZScoreRetainedEarnings(s) ==
    IF Truthy(s.retained_earnings) THEN Num(s.retained_earnings)
    ELSE OrZero(s.net_income)

\* statement.ebit || statement.net_income || 0
ZScoreEbit(s) ==
    IF Truthy(s.ebit) THEN Num(s.ebit) ELSE OrZero(s.net_income)

\* Math.round(x * 100) / 100; NaN and the infinities are returned as they are.
MathRound2(x) == IF IsFinite(x) THEN Round2(x) ELSE x

CalculateZScore(s) ==
    LET totalAssets == Num(s.assets)
        totalLiabilities == Num(s.liabilities)
        equity == ZScoreEquity(s)
        workingCapital == Sub(OrZero(s.current_assets), OrZero(s.current_liabilities))
        wc_ta == Div(workingCapital, totalAssets)
        re_ta == Div(ZScoreRetainedEarnings(s), totalAssets)
        ebit_ta == Div(ZScoreEbit(s), totalAssets)
        mve_tl == IF Gt(totalLiabilities, Int2Num(0))
                  THEN Div(equity, totalLiabilities)
                  ELSE Int2Num(0)
        sales_ta == Div(OrZero(s.revenue), totalAssets)
        zScore == Add(Add(Add(Add(Mul(Lit(12, 10), wc_ta),
                                  Mul(Lit(14, 10), re_ta)),
                              Mul(Lit(33, 10), ebit_ta)),
                          Mul(Lit(6, 10), mve_tl)),
                      Mul(Lit(10, 10), sales_ta))
        zone == IF Gt(zScore, Lit(299, 100)) THEN "Safe"
                ELSE IF Gt(zScore, Lit(181, 100)) THEN "Grey"
                ELSE "Distress"
        bankruptcyRisk == IF zone = "Safe" THEN "Low"
                          ELSE IF zone = "Grey" THEN "Medium"
                          ELSE "High"
    IN  [zScore |-> MathRound2(zScore),
         zone |-> zone,
         bankruptcyRisk |-> bankruptcyRisk,
         components |-> [workingCapitalRatio |-> wc_ta,
                         retainedEarningsRatio |-> re_ta,
                         ebitRatio |-> ebit_ta,
                         marketValueRatio |-> mve_tl,
                         salesRatio |-> sales_ta]]

(***************************************************************************)
(* ForecastingService.forecastRevenue.  A period is the sequence of the    *)
(* characters of the period string.  A statement of a series is a          *)
(* statement with its period.                                              *)
(***************************************************************************)
Digits == <<"0", "1", "2", "3", "4", "5", "6", "7", "8", "9">>

\* \d
IsDigit(c) == \E i \in 1..10 : Digits[i] = c

DigitOf(c) == (CHOOSE i \in 1..10 : Digits[i] = c) - 1

\* parseInt of a string of digits
RECURSIVE ParseInt(_)
ParseInt(chars) ==
    IF chars = <<>> THEN 0
    ELSE 10 * ParseInt(SubSeq(chars, 1, Len(chars) - 1)) + DigitOf(chars[Len(chars)])

\* `${n}` for an integer n >= 0
RECURSIVE NumberToString(_)
NumberToString(n) ==
    IF n < 10 THEN <<Digits[n + 1]>>
    ELSE NumberToString(n \div 10) \o <<Digits[(n % 10) + 1]>>

\* The remainder without the shift back to 1..4
NewQuarterUnshifted(totalQuarters) == totalQuarters % 4

\* const newQuarter = (totalQuarters % 4) + 1
NewQuarter(totalQuarters) == (totalQuarters % 4) + 1

\* lastPeriod.match(/(\d{4})(?:-Q(\d))?/): the leftmost four digits, then
\* "-Q" and a digit when they follow; a quarter of 0 is falsy.
GetNextPeriod(lastPeriod, ahead) ==
    LET starts == {i \in 1..(Len(lastPeriod) - 3) :
                      \A k \in 0..3 : IsDigit(lastPeriod[i + k])}
    IN  IF starts = {}
        THEN <<"F", "u", "t", "u", "r", "e", "+">> \o NumberToString(ahead)
        ELSE LET at == CHOOSE i \in starts : \A j \in starts : i <= j
                 year == ParseInt(SubSeq(lastPeriod, at, at + 3))
                 hasQuarter == /\ Len(lastPeriod) >= at + 6
                               /\ lastPeriod[at + 4] = "-"
                               /\ lastPeriod[at + 5] = "Q"
                               /\ IsDigit(lastPeriod[at + 6])
                 quarter == IF hasQuarter THEN DigitOf(lastPeriod[at + 6]) ELSE 0
             IN  IF quarter # 0
                 THEN LET totalQuarters == (quarter - 1) + ahead
                      IN  NumberToString(year + (totalQuarters \div 4)) \o <<"-", "Q">>
                              \o NumberToString(NewQuarter(totalQuarters))
                 ELSE NumberToString(year + ahead)

\* Collation order of the characters used in periods: punctuation, digits,
\* letters.
CharRank(c) ==
    IF c = "-" THEN 0
    ELSE IF IsDigit(c) THEN 1 + DigitOf(c)
    ELSE IF c = "F" THEN 11
    ELSE IF c = "Q" THEN 12
    ELSE 13

\* a.localeCompare(b): negative, zero or positive
RECURSIVE LocaleCompare(_, _)
LocaleCompare(a, b) ==
    IF a = <<>> THEN (IF b = <<>> THEN 0 ELSE 0 - 1)
    ELSE IF b = <<>> THEN 1
    ELSE IF CharRank(a[1]) < CharRank(b[1]) THEN 0 - 1
    ELSE IF CharRank(a[1]) > CharRank(b[1]) THEN 1
    ELSE LocaleCompare(Tail(a), Tail(b))

\* No sort: the list in the order given.
InGivenOrder(list) == list

\* .sort((a, b) => a.period.localeCompare(b.period)): the sort is stable
RECURSIVE SortByPeriod(_)
SortByPeriod(list) ==
    IF list = <<>> THEN <<>>
    ELSE LET x == list[Len(list)]
             front == SortByPeriod(SubSeq(list, 1, Len(list) - 1))
             k == Cardinality({i \in 1..Len(front) :
                                  LocaleCompare(front[i].period, x.period) <= 0})
         IN  SubSeq(front, 1, k) \o <<x>> \o SubSeq(front, k + 1, Len(front))

\* The argument after statements.sort(...), a sort of the caller's own array.
ArgumentSortedInPlace(list) == SortByPeriod(list)

\* The caller's array after statements.filter(...).sort(...): filter returns
\* a new array, sort orders that array in place, and no statement is written
\* to, so the argument keeps its elements and their order.
ArgumentAfterFilterSort(list) == list

\* The filter without the sign test: .filter((s) => s.revenue)
WithRevenue(list) == SelectSeq(list, LAMBDA s : Truthy(s.revenue))

\* .filter((s) => s.revenue && s.revenue > 0)
WithPositiveRevenue(list) ==
    SelectSeq(list, LAMBDA s : Truthy(s.revenue) /\ Val(s.revenue) > 0)

\* reduce((sum, rate) => sum + rate, 0)
RECURSIVE SumNum(_)
SumNum(q) ==
    IF q = <<>> THEN Int2Num(0)
    ELSE Add(SumNum(SubSeq(q, 1, Len(q) - 1)), q[Len(q)])

\* Math.pow(x, i) for an integer i >= 0
RECURSIVE Pow(_, _)
Pow(x, i) == IF i = 0 THEN Int2Num(1) ELSE Mul(Pow(x, i - 1), x)

\* Math.round(x) for a finite x: halves go up
MathRound(x) == Int2Num((2 * x.n + x.d) \div (2 * x.d))

\* Math.sqrt(x) for x = n/d >= 0 with n and d perfect squares.  With at most
\* two growth rates the variance is ((g1 - g2)/2)^2, such a square.
MathSqrt(x) ==
    Rat(CHOOSE r \in 0..x.n : r * r = x.n, CHOOSE r \in 1..x.d : r * r = x.d)

Variance(growthRates, avgGrowthRate) ==
    Div(SumNum([i \in 1..Len(growthRates) |->
                   Pow(Sub(growthRates[i], avgGrowthRate), 2)]),
        Int2Num(Len(growthRates)))

\* The deviation of the last growth rate from the average, with its sign.
LastDeviation(growthRates, avgGrowthRate) ==
    Sub(growthRates[Len(growthRates)], avgGrowthRate)

StdDev(growthRates, avgGrowthRate) ==
    MathSqrt(Variance(growthRates, avgGrowthRate))

Threw(message) == [threw |-> TRUE, message |-> message, forecasts |-> <<>>]

\* Compounding without the base of 1: lastRevenue * avgGrowthRate^i.
PredictedRevenueOfRateAlone(lastRevenue, avgGrowthRate, i) ==
    Mul(lastRevenue, Pow(avgGrowthRate, i))

PredictedRevenue(lastRevenue, avgGrowthRate, i) ==
    Mul(lastRevenue, Pow(Add(Int2Num(1), avgGrowthRate), i))

ForecastRevenue(list, ahead) ==
    IF Len(list) < 2 THEN Threw("at least 2 periods are needed")
    ELSE LET sorted == SortByPeriod(WithPositiveRevenue(list))
         IN  IF Len(sorted) < 2 THEN Threw("insufficient data")
             ELSE LET growthRates ==
                          [i \in 1..(Len(sorted) - 1) |->
                              Div(Sub(Num(sorted[i + 1].revenue), Num(sorted[i].revenue)),
                                  Num(sorted[i].revenue))]
                      avgGrowthRate == Div(SumNum(growthRates),
                                           Int2Num(Len(growthRates)))
                      stdDev == StdDev(growthRates, avgGrowthRate)
                      lastRevenue == Num(sorted[Len(sorted)].revenue)
                      lastPeriod == sorted[Len(sorted)].period
                      Forecast(i) ==
                          LET predictedRevenue ==
                                  PredictedRevenue(lastRevenue, avgGrowthRate, i)
                              errorMargin ==
                                  Mul(Mul(predictedRevenue, stdDev), Int2Num(2))
                          IN  [period |-> GetNextPeriod(lastPeriod, i),
                               predictedRevenue |-> MathRound(predictedRevenue),
                               confidenceInterval |->
                                   [lower |-> MathRound(Sub(predictedRevenue,
                                                            errorMargin)),
                                    upper |-> MathRound(Add(predictedRevenue,
                                                            errorMargin))],
                               growthRate |-> avgGrowthRate]
                  IN  [threw |-> FALSE, message |-> "",
                       forecasts |-> [i \in 1..ahead |-> Forecast(i)]]

\* The filter that drops a net_income of 0 as well:
\* .filter((s) => s.net_income && s.revenue && s.revenue > 0)
WithNonZeroIncome(list) ==
    SelectSeq(list, LAMBDA s : /\ Truthy(s.net_income)
                               /\ Truthy(s.revenue) /\ Val(s.revenue) > 0)

\* .filter((s) => s.net_income !== undefined && s.revenue && s.revenue > 0)
WithIncomeAndRevenue(list) ==
    SelectSeq(list, LAMBDA s : /\ Has(s.net_income)
                               /\ Truthy(s.revenue) /\ Val(s.revenue) > 0)

\* sorted.map((s) => s.net_income! / s.revenue!)
Margins(sorted) ==
    [i \in 1..Len(sorted) |-> Div(Num(sorted[i].net_income), Num(sorted[i].revenue))]

\* margins[i] > margins[i - 1] * 1.05
Improved(previous, current) == Gt(current, Mul(previous, Lit(105, 100)))

\* margins[i] < margins[i - 1] * 0.95
Declined(previous, current) == Lt(current, Mul(previous, Lit(95, 100)))

\* The result carries, beside the trend returned, the two counters and the
\* number of margins compared, the locals of the source at its return.
Trend(trend, improving, declining, margins) ==
    [trend |-> trend, improving |-> improving, declining |-> declining,
     margins |-> margins]

PredictProfitabilityTrend(list) ==
    IF Len(list) < 3 THEN Trend("Stable", 0, 0, <<>>)
    ELSE LET sorted == SortByPeriod(WithIncomeAndRevenue(list))
         IN  IF Len(sorted) < 3 THEN Trend("Stable", 0, 0, <<>>)
             ELSE LET margins == Margins(sorted)
                      improving ==
                          Cardinality({i \in 2..Len(margins) :
                                          Improved(margins[i - 1], margins[i])})
                      declining ==
                          Cardinality({i \in 2..Len(margins) :
                                          Declined(margins[i - 1], margins[i])})
                  IN  IF improving > declining
                      THEN Trend("Improving", improving, declining, margins)
                      ELSE IF declining > improving
                      THEN Trend("Declining", improving, declining, margins)
                      ELSE Trend("Stable", improving, declining, margins)

(***************************************************************************)
(* Inputs.  A caller may pass any statement; the model draws statements    *)
(* from families that each vary the fields one group of computations reads *)
(* over values on both sides of (and on) the thresholds of the source,     *)
(* with 0, negative and missing values included.                           *)
(***************************************************************************)
Vals == 0..MaxVal

SignedVals == (0 - MaxVal)..MaxVal

\* A previous statement that carries only the mandatory fields.
BlankPrevious == BaseStatement(4, 2)

LiquidityInputs ==
    {[BaseStatement(4, 2) EXCEPT !.current_assets = ca, !.current_liabilities = cl,
                                 !.inventory = inv, !.cash = cash] :
        ca \in Opt(Vals), cl \in Opt({0, 2, 10}), inv \in Opt({0, 1}),
        cash \in Opt({0, 1, 2})}

LeverageInputs ==
    {[BaseStatement(a, l) EXCEPT !.equity = eq] :
        a \in Vals \cup {10}, l \in Vals \cup {7},
        eq \in Opt({0 - 1, 0, 1, 20})}

InterestInputs ==
    {[BaseStatement(4, 2) EXCEPT !.ebit = ebit, !.interest_expense = ie] :
        ebit \in Opt({0, 2, 4}), ie \in Opt({0 - 1, 0, 2})}

ProfitabilityInputs ==
    {[BaseStatement(a, l) EXCEPT !.net_income = ni, !.revenue = rev, !.equity = eq] :
        a \in {0, 20, 50}, l \in {0, 30}, ni \in Opt(Vals \cup {0 - 1}),
        rev \in Opt({0 - 1, 0, 10, 20}), eq \in Opt({0, 20, 25})}

GrossProfitInputs ==
    {[BaseStatement(4, 2) EXCEPT !.gross_profit = gp, !.revenue = rev] :
        gp \in Opt({0, 2, 3}), rev \in Opt({0 - 1, 0, 10})}

EfficiencyInputs ==
    {[BaseStatement(a, 2) EXCEPT !.revenue = rev, !.cogs = cogs, !.inventory = inv,
                                 !.accounts_receivable = ar] :
        a \in {0, 5, 10}, rev \in Opt(Vals \cup {8}), cogs \in Opt({0, 3, 5}),
        inv \in Opt({0 - 1, 0, 1}), ar \in Opt({0, 1})}

EarningsInputs ==
    {[BaseStatement(a, 1) EXCEPT !.net_income = ni, !.operating_cf = ocf] :
        a \in {0, 20, 25}, ni \in Opt(SignedVals), ocf \in Opt(SignedVals)}

BenfordInputs ==
    {[BaseStatement(a, 25) EXCEPT !.current_assets = ca, !.current_liabilities = cl,
                                  !.revenue = rev, !.net_income = ni, !.cash = cash,
                                  !.inventory = inv, !.accounts_receivable = ar] :
        a \in {12, 900}, ca \in Opt({31}), cl \in Opt({1, 97}), rev \in Opt({18}),
        ni \in Opt({0 - 5, 2}), cash \in Opt({1, 9}), inv \in Opt({19, 500}),
        ar \in Opt({7, 110})}

\* Current and previous statement for receivableGrowthAnalysis.
ReceivableCalls ==
    {<<[BaseStatement(40, 20) EXCEPT !.accounts_receivable = ar, !.revenue = rev],
       <<[BaseStatement(40, 20) EXCEPT !.accounts_receivable = par,
                                       !.revenue = prev]>>>> :
        ar \in Opt({0, 2, 4, 10, 22, 25, 30, 35}), rev \in Opt({0, 5, 10, 20}),
        par \in Opt({0, 10}), prev \in Opt({0, 10})}

\* Current and previous statement for assetInflationAnalysis.
AssetCalls ==
    {<<[BaseStatement(40, 20) EXCEPT !.fixed_assets = fa, !.revenue = rev],
       <<[BaseStatement(40, 20) EXCEPT !.fixed_assets = pfa, !.revenue = prev]>>>> :
        fa \in Opt({0, 20, 23, 24, 26, 27, 43, 44, 46, 47}),
        rev \in Opt({0, 5, 10, 20}), pfa \in Opt({0, 20}), prev \in Opt({0, 10})}

\* Both growth analyzers flagging at once, with the single-statement analyzers.
GrowthCalls ==
    {<<[BaseStatement(20, 20) EXCEPT !.accounts_receivable = <<ar>>,
                                     !.fixed_assets = <<fa>>, !.revenue = <<rev>>,
                                     !.net_income = ni, !.operating_cf = <<1>>],
       <<[BaseStatement(40, 20) EXCEPT !.accounts_receivable = <<10>>,
                                       !.fixed_assets = <<20>>,
                                       !.revenue = <<10>>]>>>> :
        ar \in {22, 35}, fa \in {27, 47}, rev \in {10, 20}, ni \in Opt({4, 5})}

SolvencyInputs ==
    {[BaseStatement(a, l) EXCEPT !.equity = eq, !.revenue = rev, !.net_income = ni] :
        a \in Vals, l \in Vals \cup {MaxVal + 1}, eq \in Opt({0 - 1, 0, 1}),
        rev \in Opt({1, 2}), ni \in Opt({0 - 1, 1})}

OperationsInputs ==
    {[BaseStatement(4, 2) EXCEPT !.current_assets = ca, !.current_liabilities = cl,
                                 !.revenue = rev, !.operating_expenses = opex] :
        ca \in Opt({0, 7, 8, 9, 10, 15}), cl \in Opt({0, 10}),
        rev \in Opt({0, 20, 100}), opex \in Opt({0, 12, 15, 18, 19})}

MixedInputs ==
    {[BaseStatement(4, l) EXCEPT !.current_assets = ca, !.current_liabilities = <<2>>,
                                 !.net_income = ni, !.revenue = rev,
                                 !.operating_cf = ocf] :
        l \in {1, 3, 4}, ca \in Opt({1, 2, 3}), ni \in Opt({0 - 1, 1, 4}),
        rev \in Opt({2, 8}), ocf \in Opt({0 - 1, 2, 4})}

\* Statements whose exact final score lies on a rating boundary or just off
\* it: two liquidity and three leverage ratios, no profitability or
\* efficiency ratio, and five Benford numbers that all start with 9.
BandInputs ==
    {[BaseStatement(9900, 999) EXCEPT !.current_assets = <<999>>,
                                      !.current_liabilities = <<990>>,
                                      !.cash = <<cash>>, !.ebit = <<ebit>>,
                                      !.interest_expense = <<2>>] :
        cash \in {91, 99}, ebit \in {1, 2, 4}}

\* Statements that lack assets, liabilities or both.
IncompleteInputs ==
    {[f \in Fields |->
        IF f = "assets" THEN a
        ELSE IF f = "liabilities" THEN l
        ELSE IF f = "net_income" THEN ni
        ELSE IF f = "revenue" THEN rev
        ELSE IF f = "operating_cf" THEN ocf
        ELSE Undefined] :
        a \in Opt({4}), l \in Opt({2}), ni \in Opt({1}), rev \in Opt({2}),
        ocf \in Opt({1})}

\* The (statement, previousStatements) pairs the model calls the services with.
Calls ==
    ((LiquidityInputs \cup LeverageInputs \cup InterestInputs
        \cup ProfitabilityInputs \cup GrossProfitInputs \cup EfficiencyInputs
        \cup BenfordInputs \cup SolvencyInputs \cup OperationsInputs
        \cup BandInputs) \X {<<>>})
    \cup ((EarningsInputs \cup MixedInputs \cup IncompleteInputs)
              \X {<<>>, <<BlankPrevious>>})
    \cup ReceivableCalls \cup AssetCalls \cup GrowthCalls

Init ==
    /\ \E call \in Calls :
          /\ statement = call[1]
          /\ previousStatements = call[2]
    /\ pc = "idle"
    /\ ratios = <<>>
    /\ categoryResult = <<>>
    /\ ratioAnalysis = <<>>
    /\ fraudAnalysis = <<>>
    /\ riskReport = <<>>
    /\ weightedScore = <<>>
    /\ statements = <<>>
    /\ periodsAhead = 1
    /\ zScoreResult = <<>>
    /\ forecastResult = <<>>
    /\ trendResult = <<>>
    /\ calls = <<>>

(***************************************************************************)
(* One action per entry point: the caller invokes it on the statement it   *)
(* holds and keeps the record it returns.                                  *)
(***************************************************************************)
CallCalculateAllRatios ==
    /\ pc = "idle"
    /\ ratios' = <<CalculateAllRatios(statement)>>
    /\ pc' = "calculateAllRatios"
    /\ UNCHANGED <<calls, forecastVars, statement, previousStatements, categoryResult, ratioAnalysis,
                   fraudAnalysis, riskReport, weightedScore>>

\* calculateCategoryScores on the list calculateAllRatios returned
CallCalculateCategoryScores ==
    /\ pc = "calculateAllRatios"
    /\ categoryResult' = <<CalculateCategoryScores(ratios[1])>>
    /\ pc' = "calculateCategoryScores"
    /\ UNCHANGED <<calls, forecastVars, statement, previousStatements, ratios, ratioAnalysis,
                   fraudAnalysis, riskReport, weightedScore>>

CallRatioAnalyzeStatement ==
    /\ pc = "idle"
    /\ ratioAnalysis' = <<RatioAnalyzeStatement(statement)>>
    /\ pc' = "ratioAnalyzeStatement"
    /\ UNCHANGED <<calls, forecastVars, statement, previousStatements, ratios, categoryResult,
                   fraudAnalysis, riskReport, weightedScore>>

CallFraudAnalyzeStatement ==
    /\ pc = "idle"
    /\ fraudAnalysis' = <<FraudAnalyzeStatement(statement, previousStatements)>>
    /\ pc' = "fraudAnalyzeStatement"
    /\ UNCHANGED <<calls, forecastVars, statement, previousStatements, ratios, categoryResult,
                   ratioAnalysis, riskReport, weightedScore>>

CallAssessRisks ==
    /\ pc = "idle"
    /\ riskReport' = <<AssessRisks(statement)>>
    /\ pc' = "assessRisks"
    /\ UNCHANGED <<calls, forecastVars, statement, previousStatements, ratios, categoryResult,
                   ratioAnalysis, fraudAnalysis, weightedScore>>

CallCalculateWeightedScore ==
    /\ pc = "idle"
    /\ weightedScore' = <<CalculateWeightedScore(statement, previousStatements)>>
    /\ pc' = "calculateWeightedScore"
    /\ UNCHANGED <<calls, forecastVars, statement, previousStatements, ratios, categoryResult,
                   ratioAnalysis, fraudAnalysis, riskReport>>

Next ==
    \/ CallCalculateAllRatios
    \/ CallCalculateCategoryScores
    \/ CallRatioAnalyzeStatement
    \/ CallFraudAnalyzeStatement
    \/ CallAssessRisks
    \/ CallCalculateWeightedScore

Spec == Init /\ [][Next]_vars

(***************************************************************************)
(* ForecastingService calls.  calculateZScore takes one statement;         *)
(* forecastRevenue takes a series of up to three dated statements and a    *)
(* horizon.                                                                *)
(***************************************************************************)
MaxAhead == 2

\* Z-Scores on both sides of 1.81 and 2.99: Z = revenue / 1000.
ZoneInputs ==
    {[BaseStatement(1000, 0) EXCEPT !.revenue = <<rev>>] :
        rev \in {1806, 1810, 1812, 1814, 1816, 2986, 2990, 2992, 2994, 2996, 3000}}

ComponentInputs ==
    {[BaseStatement(a, l) EXCEPT !.retained_earnings = re, !.ebit = ebit,
                                 !.net_income = ni, !.equity = eq,
                                 !.current_assets = ca, !.current_liabilities = cl,
                                 !.revenue = rev] :
        a \in {0, 10}, l \in {0, 5}, re \in Opt({0 - 1, 0, 3}), ebit \in Opt({0, 3}),
        ni \in Opt({0 - 1, 0, 2}), eq \in Opt({0, 5}), ca \in Opt({4}),
        cl \in Opt({2}), rev \in Opt({0, 20})}

ZScoreInputs == ZoneInputs \cup ComponentInputs

Quarterly(chars, q) == chars \o <<"-", "Q", Digits[q + 1]>>

QuarterPeriods == {Quarterly(<<"1", "4", "0", "0">>, q) : q \in 1..4}

AnnualPeriods == {<<"1", "4", "0", "0">>, <<"1", "4", "0", "1">>}

\* Periods the pattern reads differently: quarter 0, a year below 1000, a
\* fifth digit, no year at all.
OtherPeriods ==
    {Quarterly(<<"1", "4", "0", "0">>, 0), Quarterly(<<"0", "9", "9", "9">>, 4),
     <<"1", "4", "0", "0", "1">>, <<"F", "Y">>}

DatedStatement(period, rev) ==
    [f \in Fields \cup {"period"} |->
        IF f = "period" THEN period
        ELSE IF f = "revenue" THEN rev
        ELSE BaseStatement(4, 2)[f]]

PairStatements ==
    {DatedStatement(p, rev) :
        p \in QuarterPeriods \cup AnnualPeriods \cup OtherPeriods,
        rev \in Opt({0 - 2, 0, 1, 2, 4})}

TripleStatements ==
    {DatedStatement(p, rev) :
        p \in {Quarterly(<<"1", "4", "0", "0">>, 3),
               Quarterly(<<"1", "4", "0", "0">>, 4), <<"1", "4", "0", "1">>},
        rev \in Opt({10, 20, 40})}

\* Revenues of a few units, where rounding to the nearest integer shows.
SmallStatements ==
    {DatedStatement(p, <<rev>>) :
        p \in {Quarterly(<<"1", "4", "0", "0">>, 3),
               Quarterly(<<"1", "4", "0", "0">>, 4), <<"1", "4", "0", "1">>},
        rev \in {1, 2, 4}}

\* Statements for the profit margin: net_income / 100 on both sides of (and
\* on) a 5% rise over 0.20, negative, zero and missing, and a revenue that
\* the filter drops.
MarginStatements ==
    {[DatedStatement(p, nr[2]) EXCEPT !.net_income = nr[1]] :
        p \in {Quarterly(<<"1", "4", "0", "0">>, 3),
               Quarterly(<<"1", "4", "0", "0">>, 4), <<"1", "4", "0", "1">>},
        nr \in ({<<>>, <<0 - 22>>, <<0 - 20>>, <<0>>, <<20>>, <<21>>, <<22>>}
                    \X {<<100>>})
               \cup {<<<<20>>, <<>>>>, <<<<20>>, <<0>>>>}}

MarginHistories ==
    {<<a, b, c>> : a \in MarginStatements, b \in MarginStatements,
                   c \in MarginStatements}

Histories ==
    {<<>>} \cup {<<a>> : a \in PairStatements}
        \cup {<<a, b>> : a \in PairStatements, b \in PairStatements}
        \cup {<<a, b, c>> : a \in TripleStatements, b \in TripleStatements,
                            c \in TripleStatements}
        \cup {<<a, b, c>> : a \in SmallStatements, b \in SmallStatements,
                            c \in SmallStatements}

ForecastInit ==
    /\ \/ /\ statement \in ZScoreInputs
          /\ statements = <<>>
          /\ periodsAhead = 1
       \/ /\ statement = BaseStatement(4, 2)
          /\ statements \in Histories
          /\ periodsAhead \in 0..MaxAhead
       \/ /\ statement = BaseStatement(4, 2)
          /\ statements \in MarginHistories
          /\ periodsAhead = 1
    /\ previousStatements = <<>>
    /\ pc = "idle"
    /\ ratios = <<>>
    /\ categoryResult = <<>>
    /\ ratioAnalysis = <<>>
    /\ fraudAnalysis = <<>>
    /\ riskReport = <<>>
    /\ weightedScore = <<>>
    /\ zScoreResult = <<>>
    /\ forecastResult = <<>>
    /\ trendResult = <<>>
    /\ calls = <<>>

CallCalculateZScore ==
    /\ pc = "idle"
    /\ zScoreResult' = <<CalculateZScore(statement)>>
    /\ pc' = "calculateZScore"
    /\ UNCHANGED <<calls, statement, previousStatements, ratios, categoryResult,
                   ratioAnalysis, fraudAnalysis, riskReport, weightedScore,
                   statements, periodsAhead, forecastResult, trendResult>>

CallForecastRevenue ==
    /\ pc = "idle"
    /\ forecastResult' = <<ForecastRevenue(statements, periodsAhead)>>
    /\ statements' = ArgumentAfterFilterSort(statements)
    /\ pc' = "forecastRevenue"
    /\ UNCHANGED <<calls, statement, previousStatements, ratios, categoryResult,
                   ratioAnalysis, fraudAnalysis, riskReport, weightedScore,
                   periodsAhead, zScoreResult, trendResult>>

CallPredictProfitabilityTrend ==
    /\ pc = "idle"
    /\ trendResult' = <<PredictProfitabilityTrend(statements)>>
    /\ statements' = ArgumentAfterFilterSort(statements)
    /\ pc' = "predictProfitabilityTrend"
    /\ UNCHANGED <<calls, statement, previousStatements, ratios, categoryResult,
                   ratioAnalysis, fraudAnalysis, riskReport, weightedScore,
                   periodsAhead, zScoreResult, forecastResult>>

ForecastNext ==
    \/ CallCalculateZScore
    \/ CallForecastRevenue
    \/ CallPredictProfitabilityTrend

ForecastSpec == ForecastInit /\ [][ForecastNext]_vars

(***************************************************************************)
(* Scoring calls in flight at once.  calculateWeightedScore and            *)
(* FraudDetectionService.analyzeStatement are async: a call runs up to its *)
(* await in one step (the body of analyzeStatement has no await and runs   *)
(* through when it is called), and resumes in a later step; steps of other *)
(* calls may run in between.  Each call holds its own arguments and        *)
(* locals.  Two fields of a call record its history: `after`, the calls    *)
(* that had returned when it started, and `interleaved`, whether another   *)
(* call was at its await when it resumed.                                  *)
(***************************************************************************)
MaxCalls == 2

EntryPoints == {"calculateWeightedScore", "analyzeStatement"}

Call(fn, s, prevs) ==
    [fn |-> fn, statement |-> s, previousStatements |-> prevs, stage |-> "pending",
     ratioAnalysis |-> <<>>, fraudAnalysis |-> <<>>, after |-> {},
     interleaved |-> FALSE, result |-> <<>>]

\* Two statements with different analyses, one with a previous statement.
ConcurrentArguments ==
    {<<[BaseStatement(9900, 999) EXCEPT !.current_assets = <<999>>,
                                       !.current_liabilities = <<990>>,
                                       !.cash = <<91>>, !.ebit = <<1>>,
                                       !.interest_expense = <<2>>], <<>>>>,
     <<[BaseStatement(40, 20) EXCEPT !.accounts_receivable = <<35>>,
                                    !.revenue = <<20>>],
       <<[BaseStatement(40, 20) EXCEPT !.accounts_receivable = <<10>>,
                                      !.revenue = <<10>>]>>>>}

ConcurrentInit ==
    /\ \E n \in 1..MaxCalls :
          calls \in [1..n -> {Call(fn, a[1], a[2]) :
                                 fn \in EntryPoints, a \in ConcurrentArguments}]
    /\ statement = BaseStatement(4, 2)
    /\ previousStatements = <<>>
    /\ pc = "idle"
    /\ ratios = <<>>
    /\ categoryResult = <<>>
    /\ ratioAnalysis = <<>>
    /\ fraudAnalysis = <<>>
    /\ riskReport = <<>>
    /\ weightedScore = <<>>
    /\ statements = <<>>
    /\ periodsAhead = 1
    /\ zScoreResult = <<>>
    /\ forecastResult = <<>>
    /\ trendResult = <<>>

\* As if the service kept one analysis for all calls: the analysis of the
\* highest-numbered call that has started.
FraudAnalysisOfHighestCall(cs, p) ==
    LET started == {q \in DOMAIN cs : cs[q].stage # "pending"}
    IN  cs[CHOOSE q \in started : \A r \in started : r <= q].fraudAnalysis[1]

\* The value the await of call p resumes with: the analysis its own call of
\* analyzeStatement returned.
AwaitedFraudAnalysis(cs, p) == cs[p].fraudAnalysis[1]

\* Call p runs from its start to its await.
StartCall(p) ==
    /\ calls[p].stage = "pending"
    /\ calls' =
          [calls EXCEPT ![p] =
              [@ EXCEPT !.stage = "awaiting",
                        !.after = {q \in DOMAIN calls : calls[q].stage = "done"},
                        !.ratioAnalysis =
                            IF calls[p].fn = "calculateWeightedScore"
                            THEN <<RatioAnalyzeStatement(calls[p].statement)>>
                            ELSE <<>>,
                        !.fraudAnalysis =
                            <<FraudAnalyzeStatement(calls[p].statement,
                                                    calls[p].previousStatements)>>]]
    /\ UNCHANGED <<statement, previousStatements, pc, ratios, categoryResult,
                   ratioAnalysis, fraudAnalysis, riskReport, weightedScore,
                   forecastVars>>

\* Call p resumes after its await and returns.
ResumeCall(p) ==
    /\ calls[p].stage = "awaiting"
    /\ calls' =
          [calls EXCEPT ![p] =
              [@ EXCEPT !.stage = "done",
                        !.interleaved =
                            \E q \in DOMAIN calls \ {p} : calls[q].stage = "awaiting",
                        !.result =
                            IF calls[p].fn = "calculateWeightedScore"
                            THEN <<WeightedScoreOf(calls[p].ratioAnalysis[1],
                                                   AwaitedFraudAnalysis(calls, p))>>
                            ELSE <<AwaitedFraudAnalysis(calls, p)>>]]
    /\ UNCHANGED <<statement, previousStatements, pc, ratios, categoryResult,
                   ratioAnalysis, fraudAnalysis, riskReport, weightedScore,
                   forecastVars>>

ConcurrentNext ==
    \/ \E p \in DOMAIN calls : StartCall(p)
    \/ \E p \in DOMAIN calls : ResumeCall(p)

ConcurrentSpec == ConcurrentInit /\ [][ConcurrentNext]_vars

(***************************************************************************)
(* Properties.                                                             *)
(***************************************************************************)
Returned(v) == v # <<>>

InRange(x) == IsFinite(x) /\ 0 <= x.n /\ x.n <= 100 * x.d

Names(rs) == {rs[i].name : i \in 1..Len(rs)}

CategoriesInRange(c) ==
    /\ InRange(c.liquidity)
    /\ InRange(c.leverage)
    /\ InRange(c.profitability)
    /\ InRange(c.efficiency)

\* C1: for every statement with assets and liabilities present, every
\* FraudIndicator score, every RiskAssessment score, every category score,
\* overallFraudScore, overallRiskScore, the ratio overallScore, fraudRiskIndex
\* and finalScore lie in [0,100].
C1_ScoresInRange ==
    /\ Returned(fraudAnalysis) =>
          /\ InRange(fraudAnalysis[1].overallFraudScore)
          /\ \A i \in 1..Len(fraudAnalysis[1].computed) :
                fraudAnalysis[1].computed[i].score \in 0..100
          /\ \A i \in 1..Len(fraudAnalysis[1].indicators) :
                fraudAnalysis[1].indicators[i].score \in 0..100
    /\ Returned(riskReport) =>
          /\ InRange(riskReport[1].overallRiskScore)
          /\ \A i \in 1..Len(riskReport[1].assessments) :
                riskReport[1].assessments[i].score \in 0..100
    /\ Returned(categoryResult) => CategoriesInRange(categoryResult[1])
    /\ Returned(ratioAnalysis) =>
          /\ CategoriesInRange(ratioAnalysis[1].categoryScores)
          /\ InRange(ratioAnalysis[1].overallScore)
    /\ Returned(weightedScore) =>
          /\ InRange(weightedScore[1].finalScore)
          /\ InRange(weightedScore[1].liquidityIndex)
          /\ InRange(weightedScore[1].leverageIndex)
          /\ InRange(weightedScore[1].profitabilityIndex)
          /\ InRange(weightedScore[1].efficiencyIndex)
          /\ InRange(weightedScore[1].fraudRiskIndex)

\* A weighted score at the top of the range: every category at 100 and no
\* fraud flag, computed with a previous statement given.
C1_Witness ==
    /\ Returned(weightedScore)
    /\ Has(statement.assets) /\ Has(statement.liabilities)
    /\ previousStatements # <<>>
    /\ weightedScore[1].finalScore = Int2Num(100)
    /\ weightedScore[1].fraudRiskIndex = Int2Num(100)

\* C2: calculateAllRatios never emits a ratio computed with a zero
\* denominator: every emitted ratio has a finite value, Debt Ratio is emitted
\* only for assets # 0 and the liquidity ratios only for
\* current_liabilities # 0.
C2_NoZeroDenominator ==
    Returned(ratios) =>
        \A i \in 1..Len(ratios[1]) :
            LET r == ratios[1][i]
            IN  /\ IsFinite(r.value)
                /\ r.name = "Debt Ratio" => Val(statement.assets) # 0
                /\ r.category = "Liquidity" =>
                      Has(statement.current_liabilities)
                      /\ Val(statement.current_liabilities) # 0

Present(s, fs) == \A f \in fs : Has(s[f])

\* C3: calculateAllRatios emits a ratio whenever its required fields are
\* present and its denominator is positive, also when the numerator field is
\* present with value 0.
C3_ZeroIsNotMissing ==
    Returned(ratios) =>
        LET s == statement
            names == Names(ratios[1])
        IN  /\ Present(s, {"net_income", "revenue"}) /\ Val(s.revenue) > 0
                  => "Net Profit Margin" \in names
            /\ Present(s, {"cash", "current_liabilities"})
                  /\ Val(s.current_liabilities) > 0
                  => "Cash Ratio" \in names
            /\ Present(s, {"current_assets", "current_liabilities"})
                  /\ Val(s.current_liabilities) > 0
                  => "Current Ratio" \in names
            /\ Present(s, {"net_income"}) /\ Val(s.assets) > 0
                  => "Return on Assets (ROA)" \in names
            /\ Present(s, {"gross_profit", "revenue"}) /\ Val(s.revenue) > 0
                  => "Gross Profit Margin" \in names
            /\ Present(s, {"ebit", "interest_expense"}) /\ Val(s.interest_expense) > 0
                  => "Times Interest Earned" \in names

\* The threshold table of the ratios: "min" rows are Good at or above `good`,
\* "max" rows at or below it; thresholds are fractions <<numerator, denominator>>.
ThresholdTable ==
    [n \in {"Current Ratio", "Quick Ratio", "Cash Ratio", "Debt to Equity",
            "Debt Ratio", "Times Interest Earned", "Net Profit Margin",
            "Return on Assets (ROA)", "Return on Equity (ROE)",
            "Gross Profit Margin", "Asset Turnover", "Inventory Turnover",
            "Receivables Turnover"} |->
        CASE n = "Current Ratio" -> [dir |-> "min", good |-> <<15, 10>>, warn |-> <<10, 10>>]
          [] n = "Quick Ratio" -> [dir |-> "min", good |-> <<10, 10>>, warn |-> <<5, 10>>]
          [] n = "Cash Ratio" -> [dir |-> "min", good |-> <<2, 10>>, warn |-> <<1, 10>>]
          [] n = "Debt to Equity" -> [dir |-> "max", good |-> <<20, 10>>, warn |-> <<30, 10>>]
          [] n = "Debt Ratio" -> [dir |-> "max", good |-> <<5, 10>>, warn |-> <<7, 10>>]
          [] n = "Times Interest Earned" -> [dir |-> "min", good |-> <<20, 10>>, warn |-> <<10, 10>>]
          [] n = "Net Profit Margin" -> [dir |-> "min", good |-> <<10, 100>>, warn |-> <<5, 100>>]
          [] n = "Return on Assets (ROA)" -> [dir |-> "min", good |-> <<5, 100>>, warn |-> <<2, 100>>]
          [] n = "Return on Equity (ROE)" -> [dir |-> "min", good |-> <<15, 100>>, warn |-> <<8, 100>>]
          [] n = "Gross Profit Margin" -> [dir |-> "min", good |-> <<30, 100>>, warn |-> <<20, 100>>]
          [] n = "Asset Turnover" -> [dir |-> "min", good |-> <<10, 10>>, warn |-> <<5, 10>>]
          [] n = "Inventory Turnover" -> [dir |-> "min", good |-> <<50, 10>>, warn |-> <<30, 10>>]
          [] n = "Receivables Turnover" -> [dir |-> "min", good |-> <<80, 10>>, warn |-> <<50, 10>>]]

\* v >= t and v <= t for a value v and a threshold fraction t; a value that is
\* not finite is above every threshold (+Infinity), below it (-Infinity) or
\* neither (NaN).
AtLeast(v, t) == IF v.d > 0 THEN v.n * t[2] >= t[1] * v.d ELSE v.n > 0

AtMost(v, t) == IF v.d > 0 THEN v.n * t[2] <= t[1] * v.d ELSE v.n < 0

TableStatus(name, v) ==
    LET row == ThresholdTable[name]
        good == IF row.dir = "min" THEN AtLeast(v, row.good) ELSE AtMost(v, row.good)
        warn == IF row.dir = "min" THEN AtLeast(v, row.warn) ELSE AtMost(v, row.warn)
    IN  IF good THEN "Good" ELSE IF warn THEN "Warning" ELSE "Critical"

StatusesFollowTable(rs) ==
    \A i \in 1..Len(rs) :
        /\ rs[i].name \in DOMAIN ThresholdTable
        /\ rs[i].status = TableStatus(rs[i].name, rs[i].value)

\* C4: the status of every emitted ratio is the one the threshold table
\* assigns to its value, the boundary value counted on the better side.
C4_StatusFollowsThresholds ==
    /\ Returned(ratios) => StatusesFollowTable(ratios[1])
    /\ Returned(ratioAnalysis) => StatusesFollowTable(ratioAnalysis[1].ratios)

\* Debt to Equity exactly 2.0 and Debt Ratio exactly 0.5, both Good.
C4_Witness ==
    /\ Returned(ratios)
    /\ \E i, j \in 1..Len(ratios[1]) :
          /\ ratios[1][i].name = "Debt to Equity"
          /\ ratios[1][i].value = Int2Num(2)
          /\ ratios[1][i].status = "Good"
          /\ ratios[1][j].name = "Debt Ratio"
          /\ ratios[1][j].value = Lit(1, 2)
          /\ ratios[1][j].status = "Good"

\* C5: equity is derived as assets - liabilities only when the equity field
\* is absent: a provided equity <= 0 (0 included) leaves Debt to Equity and
\* ROE out and makes the Financial assessor see no positive equity (95,
\* Critical); a provided equity > 0 is the divisor of Debt to Equity.
C5_ProvidedEquityIsUsed ==
    /\ Returned(ratios) /\ Has(statement.equity) =>
          IF Val(statement.equity) <= 0
          THEN Names(ratios[1]) \cap {"Debt to Equity", "Return on Equity (ROE)"} = {}
          ELSE \E i \in 1..Len(ratios[1]) :
                  /\ ratios[1][i].name = "Debt to Equity"
                  /\ ratios[1][i].value.n * Val(statement.equity)
                        = Val(statement.liabilities) * ratios[1][i].value.d
    /\ Returned(riskReport) /\ Has(statement.equity) /\ Val(statement.equity) <= 0 =>
          riskReport[1].assessments[1].score = 95

CountStatus(rs, category, status) ==
    Cardinality({i \in 1..Len(rs) : rs[i].category = category /\ rs[i].status = status})

\* The score of `category` is the mean of the points of its ratios in rs, and
\* 0 when it has none.
IsMeanOfPoints(score, rs, category) ==
    LET good == CountStatus(rs, category, "Good")
        warning == CountStatus(rs, category, "Warning")
        critical == CountStatus(rs, category, "Critical")
        count == good + warning + critical
    IN  /\ IsFinite(score)
        /\ IF count = 0 THEN score.n = 0
           ELSE /\ score.n * count = (100 * good + 60 * warning + 20 * critical) * score.d
                /\ 20 * score.d <= score.n
                /\ score.n <= 100 * score.d

\* C6: calculateCategoryScores gives each category the mean of its ratios'
\* points (Good 100, Warning 60, Critical 20) and 0 to a category without
\* ratios, so a score is 0 or in [20,100].
C6_CategoryScoreIsMean ==
    Returned(categoryResult) =>
        /\ IsMeanOfPoints(categoryResult[1].liquidity, ratios[1], "Liquidity")
        /\ IsMeanOfPoints(categoryResult[1].leverage, ratios[1], "Leverage")
        /\ IsMeanOfPoints(categoryResult[1].profitability, ratios[1], "Profitability")
        /\ IsMeanOfPoints(categoryResult[1].efficiency, ratios[1], "Efficiency")

\* A category without ratios (0) beside one whose ratios differ in status.
C6_Witness ==
    /\ Returned(categoryResult)
    /\ categoryResult[1].efficiency = Int2Num(0)
    /\ CountStatus(ratios[1], "Efficiency", "Good") = 0
    /\ CountStatus(ratios[1], "Liquidity", "Warning") = 1
    /\ CountStatus(ratios[1], "Liquidity", "Good") = 2
    /\ categoryResult[1].liquidity = Lit(260, 3)

\* The analyzers analyzeStatement runs, in order.
Analyzers(prevs) ==
    <<"Benford's Law", "Quality of Earnings">>
        \o (IF prevs # <<>> THEN <<"Receivable Growth", "Asset Inflation">> ELSE <<>>)
        \o <<"Accrual Ratio">>

ScoreTotal(indicators) ==
    LET RECURSIVE Upto(_)
        Upto(k) == IF k = 0 THEN 0 ELSE indicators[k].score + Upto(k - 1)
    IN  Upto(Len(indicators))

C8_MissingPreviousIsMeanNeutral ==
    Returned(fraudAnalysis) /\ previousStatements = <<>> =>
        /\ Len(fraudAnalysis[1].computed) = 5
        /\ NumEq(fraudAnalysis[1].overallFraudScore,
                 FraudAnalyzeStatement(statement, <<BlankPrevious>>).overallFraudScore)

QualityIndicator(r) == r.computed[2]

\* C9: with operating_cf >= net_income (both present) the Quality of
\* Earnings score is 0 and no Quality of Earnings indicator is returned,
\* whatever the sign of net_income.
C9_NoFlagWhenCashCoversIncome ==
    Returned(fraudAnalysis)
        /\ Present(statement, {"operating_cf", "net_income"})
        /\ Val(statement.operating_cf) >= Val(statement.net_income) =>
            /\ QualityIndicator(fraudAnalysis[1]).score = 0
            /\ \A i \in 1..Len(fraudAnalysis[1].indicators) :
                  fraudAnalysis[1].indicators[i].flagType # "Quality of Earnings"

\* operating_cf / net_income < num/den for net_income # 0
CashToIncomeBelow(cf, ni, num, den) ==
    IF ni > 0 THEN cf * den < num * ni ELSE cf * den > num * ni

\* C10: whenever operating_cf is present (0 included) and net_income is
\* present and non-zero, the Quality of Earnings score is decided by
\* operating_cf / net_income: < 0.5 gives 90/Critical, < 0.8 gives 60/High,
\* < 1.0 gives 30/Medium, otherwise 0.
C10_ScoreDecidedByRatio ==
    Returned(fraudAnalysis)
        /\ Present(statement, {"operating_cf", "net_income"})
        /\ Val(statement.net_income) # 0 =>
            LET cf == Val(statement.operating_cf)
                ni == Val(statement.net_income)
                q == QualityIndicator(fraudAnalysis[1])
            IN  IF CashToIncomeBelow(cf, ni, 5, 10)
                THEN q.score = 90 /\ q.severity = "Critical"
                ELSE IF CashToIncomeBelow(cf, ni, 8, 10)
                THEN q.score = 60 /\ q.severity = "High"
                ELSE IF CashToIncomeBelow(cf, ni, 10, 10)
                THEN q.score = 30 /\ q.severity = "Medium"
                ELSE q.score = 0

\* The eligible fields that are present and strictly positive.
PositiveEligible(s) ==
    {f \in {"assets", "liabilities", "current_assets", "current_liabilities",
            "revenue", "net_income", "cash", "inventory", "accounts_receivable"} :
        Has(s[f]) /\ Val(s[f]) > 0}

BenfordIndicator(r) == r.computed[1]

ReturnedTypes(r) == {r.indicators[i].flagType : i \in 1..Len(r.indicators)}

C12_BenfordReportedWithSufficientData ==
    Returned(fraudAnalysis) /\ Cardinality(PositiveEligible(statement)) >= 5 =>
        \E i \in 1..Len(fraudAnalysis[1].indicators) :
            /\ fraudAnalysis[1].indicators[i].flagType = "Benford's Law"
            /\ {"chiSquare", "actualDistribution"}
                   \subseteq fraudAnalysis[1].indicators[i].details

\* The level of score n/d (d > 0): >= 70 Critical, >= 50 High, >= 30 Medium,
\* else Low.
LevelOf(x) ==
    IF x.n >= 70 * x.d THEN "Critical"
    ELSE IF x.n >= 50 * x.d THEN "High"
    ELSE IF x.n >= 30 * x.d THEN "Medium"
    ELSE "Low"

\* C13: in every result of analyzeStatement and of assessRisks the riskLevel
\* is the level the fixed step function (>= 70 Critical, >= 50 High,
\* >= 30 Medium, else Low) assigns to the returned overall score.
C13_LevelFollowsScore ==
    /\ Returned(fraudAnalysis) =>
          /\ IsFinite(fraudAnalysis[1].overallFraudScore)
          /\ fraudAnalysis[1].riskLevel = LevelOf(fraudAnalysis[1].overallFraudScore)
    /\ Returned(riskReport) =>
          /\ IsFinite(riskReport[1].overallRiskScore)
          /\ riskReport[1].riskLevel = LevelOf(riskReport[1].overallRiskScore)

\* An overall fraud score of exactly 30, reported as Medium.
C13_Witness ==
    /\ Returned(fraudAnalysis)
    /\ fraudAnalysis[1].overallFraudScore = Int2Num(30)
    /\ fraudAnalysis[1].riskLevel = "Medium"

AssessmentOf(r, riskType) ==
    {r.assessments[i] : i \in {j \in 1..Len(r.assessments) :
                                  r.assessments[j].riskType = riskType}}

Abstains(r, riskType) ==
    \A a \in AssessmentOf(r, riskType) : a.score = 0 /\ a.level = "Low"

\* C14: an assessor abstains with score 0 and level Low when a field it
\* requires is missing: Liquidity when current_assets or current_liabilities
\* is absent, Operational when revenue or operating_expenses is absent.
C14_AssessorsAbstainOnMissingField ==
    Returned(riskReport) =>
        /\ ~Present(statement, {"current_assets", "current_liabilities"})
              => Abstains(riskReport[1], "Liquidity")
        /\ ~Present(statement, {"revenue", "operating_expenses"})
              => Abstains(riskReport[1], "Operational")

\* The weights of the risk categories, in hundredths.
WeightTable ==
    [Financial |-> 30, Liquidity |-> 30, Operational |-> 25, Market |-> 15]

WeightedTotal(assessments) ==
    LET RECURSIVE Upto(_)
        Upto(k) == IF k = 0 THEN 0
                   ELSE assessments[k].score * WeightTable[assessments[k].riskType]
                            + Upto(k - 1)
    IN  Upto(Len(assessments))

\* C15: overallRiskScore is the weighted sum of the produced assessments'
\* scores (Financial 0.30, Liquidity 0.30, Operational 0.25, Market 0.15)
\* divided by 0.85 when revenue is absent, no Market assessment being
\* produced then, and by 1.0 otherwise.
C15_WeightsRenormalised ==
    Returned(riskReport) =>
        LET r == riskReport[1]
            divisor == IF Has(statement.revenue) THEN 100 ELSE 85
        IN  /\ (AssessmentOf(r, "Market") # {}) <=> Has(statement.revenue)
            /\ IsFinite(r.overallRiskScore)
            /\ r.overallRiskScore.n * divisor
                   = WeightedTotal(r.assessments) * r.overallRiskScore.d

\* C16: the reported zone and bankruptcy risk agree with the reported
\* (rounded) zScore: above 2.99 Safe/Low, at most 1.81 Distress/High, in
\* between Grey/Medium.
C16_ZoneAgreesWithReportedScore ==
    Returned(zScoreResult) =>
        LET r == zScoreResult[1]
        IN  /\ Gt(r.zScore, Lit(299, 100))
                  => r.zone = "Safe" /\ r.bankruptcyRisk = "Low"
            /\ Le(r.zScore, Lit(181, 100))
                  => r.zone = "Distress" /\ r.bankruptcyRisk = "High"
            /\ Gt(r.zScore, Lit(181, 100)) /\ Le(r.zScore, Lit(299, 100))
                  => r.zone = "Grey" /\ r.bankruptcyRisk = "Medium"

\* field if present, else net_income if present, else 0
PresentOrNetIncome(s, field) ==
    IF Has(s[field]) THEN Val(s[field])
    ELSE IF Has(s.net_income) THEN Val(s.net_income) ELSE 0

\* C17: the RE/TA component uses retained_earnings whenever it is present
\* (0 included) and net_income only when it is absent (0 when both are
\* absent); the EBIT/TA component uses ebit and net_income likewise.
C17_PresentComponentIsUsed ==
    Returned(zScoreResult) =>
        LET c == zScoreResult[1].components
            assets == Int2Num(Val(statement.assets))
        IN  /\ c.retainedEarningsRatio
                   = Div(Int2Num(PresentOrNetIncome(statement, "retained_earnings")),
                         assets)
            /\ c.ebitRatio = Div(Int2Num(PresentOrNetIncome(statement, "ebit")), assets)

\* The positions of the statements with a present, strictly positive revenue.
ValidPositions ==
    {i \in 1..Len(statements) :
        Has(statements[i].revenue) /\ Val(statements[i].revenue) > 0}

\* C18: forecastRevenue raises an error and returns nothing when fewer than
\* 2 of the statements have a present, strictly positive revenue; otherwise
\* it returns exactly periodsAhead forecasts, all with the same growthRate.
C18_ForecastNeedsTwoRevenues ==
    Returned(forecastResult) =>
        LET r == forecastResult[1]
        IN  IF Cardinality(ValidPositions) < 2
            THEN r.threw /\ r.forecasts = <<>>
            ELSE /\ ~r.threw
                 /\ Len(r.forecasts) = periodsAhead
                 /\ \A i, j \in 1..Len(r.forecasts) :
                       r.forecasts[i].growthRate = r.forecasts[j].growthRate

\* Two forecasts from a series of three with one statement filtered out.
C18_Witness ==
    /\ Returned(forecastResult)
    /\ Len(statements) = 3
    /\ Cardinality(ValidPositions) = 2
    /\ Len(forecastResult[1].forecasts) = 2

\* A period "YYYY" or "YYYY-Qn" with n in 1..4.
WellFormed(p) ==
    /\ Len(p) \in {4, 7}
    /\ \A k \in 1..4 : IsDigit(p[k])
    /\ Len(p) = 7 => p[5] = "-" /\ p[6] = "Q" /\ p[7] \in {"1", "2", "3", "4"}

YearOf(p) ==
    1000 * DigitOf(p[1]) + 100 * DigitOf(p[2]) + 10 * DigitOf(p[3]) + DigitOf(p[4])

\* 0 for an annual period
QuarterOf(p) == IF Len(p) = 7 THEN DigitOf(p[7]) ELSE 0

Label(year, quarter) ==
    <<Digits[(year \div 1000) + 1], Digits[((year \div 100) % 10) + 1],
      Digits[((year \div 10) % 10) + 1], Digits[(year % 10) + 1]>>
        \o (IF quarter = 0 THEN <<>> ELSE <<"-", "Q", Digits[quarter + 1]>>)

\* The period that follows p.
Successor(p) ==
    IF QuarterOf(p) = 0 THEN Label(YearOf(p) + 1, 0)
    ELSE IF QuarterOf(p) < 4 THEN Label(YearOf(p), QuarterOf(p) + 1)
    ELSE Label(YearOf(p) + 1, 1)

Later(p, q) ==
    \/ YearOf(p) > YearOf(q)
    \/ YearOf(p) = YearOf(q) /\ QuarterOf(p) >= QuarterOf(q)

\* C19: when the historical periods are "YYYY-Qn" (n in 1..4) or "YYYY", the
\* first forecast period is the successor of the last historical period and
\* each further one is the successor of the one before: the next quarter,
\* with the year carried after Q4, or the next year.
C19_PeriodsAreSuccessors ==
    Returned(forecastResult) /\ ~forecastResult[1].threw
        /\ (\A i \in ValidPositions : WellFormed(statements[i].period)) =>
            LET f == forecastResult[1].forecasts
                last == CHOOSE i \in ValidPositions :
                            \A j \in ValidPositions :
                                Later(statements[i].period, statements[j].period)
            IN  \A i \in 1..Len(f) :
                    f[i].period = Successor(IF i = 1 THEN statements[last].period
                                            ELSE f[i - 1].period)

\* 1400-Q4 followed by 1401-Q1 and 1401-Q2.
C19_Witness ==
    /\ Returned(forecastResult)
    /\ Len(forecastResult[1].forecasts) = 2
    /\ forecastResult[1].forecasts[1].period = <<"1", "4", "0", "1", "-", "Q", "1">>
    /\ forecastResult[1].forecasts[2].period = <<"1", "4", "0", "1", "-", "Q", "2">>

\* C20: every forecast has lower <= predictedRevenue <= upper.
C20_IntervalContainsPrediction ==
    Returned(forecastResult) =>
        \A i \in 1..Len(forecastResult[1].forecasts) :
            LET f == forecastResult[1].forecasts[i]
            IN  /\ Le(f.confidenceInterval.lower, f.predictedRevenue)
                /\ Le(f.predictedRevenue, f.confidenceInterval.upper)

\* A shrinking revenue with the prediction strictly inside its interval.
C20_Witness ==
    /\ Returned(forecastResult)
    /\ \E i \in 1..Len(forecastResult[1].forecasts) :
          LET f == forecastResult[1].forecasts[i]
          IN  /\ Lt(f.growthRate, Int2Num(0))
              /\ Lt(f.confidenceInterval.lower, f.predictedRevenue)
              /\ Lt(f.predictedRevenue, f.confidenceInterval.upper)

GrewOverFivePercent(previous, current) ==
    Gt(Sub(current, previous), Mul(Lit(5, 100), MathAbs(previous)))

\* The margin fell by more than 5% of its size.
ShrankOverFivePercent(previous, current) ==
    Gt(Sub(previous, current), Mul(Lit(5, 100), MathAbs(previous)))

\* net_income / revenue of the statements that have net_income present and
\* revenue > 0, in ascending period order.
UsableMargins(list) ==
    LET usable == SelectSeq(list, LAMBDA s : /\ Present(s, {"net_income", "revenue"})
                                             /\ Val(s.revenue) > 0)
        ordered == SortByPeriod(usable)
    IN  [i \in 1..Len(ordered) |->
            Rat(Val(ordered[i].net_income), Val(ordered[i].revenue))]

C29_PairCountedOnce ==
    (Returned(trendResult) /\ Len(trendResult[1].margins) > 0) =>
        trendResult[1].improving + trendResult[1].declining
            <= Len(trendResult[1].margins) - 1

\* The rating band that contains a score.
Band(score) ==
    LET floors == <<<<95, "AAA">>, <<90, "AA">>, <<80, "A">>, <<70, "BBB">>,
                    <<60, "BB">>, <<50, "B">>, <<40, "CCC">>, <<30, "CC">>,
                    <<20, "C">>>>
        met == {i \in 1..Len(floors) : Ge(score, Int2Num(floors[i][1]))}
    IN  IF met = {} THEN "D"
        ELSE floors[CHOOSE i \in met : \A j \in met : i <= j][2]

\* C23: in every WeightedScore returned the rating is the band that contains
\* the returned finalScore (>= 95 AAA, >= 90 AA, >= 80 A, >= 70 BBB, >= 60 BB,
\* >= 50 B, >= 40 CCC, >= 30 CC, >= 20 C, else D).
C23_RatingIsBandOfReturnedScore ==
    Returned(weightedScore) =>
        weightedScore[1].rating = Band(weightedScore[1].finalScore)

\* C24: when the statement lacks assets or liabilities, no entry point
\* returns a result record (each fails with MissingRequiredField instead).
C24_NoResultWithoutAssetsOrLiabilities ==
    ~Present(statement, {"assets", "liabilities"}) =>
        /\ ~Returned(ratios)
        /\ ~Returned(fraudAnalysis)
        /\ ~Returned(riskReport)
        /\ ~Returned(weightedScore)
        /\ ~Returned(zScoreResult)

\* The Receivable Growth indicators computed (one when a previous statement
\* was given, none otherwise).
ReceivableIndicators(r) ==
    {r.computed[i] : i \in {j \in 1..Len(r.computed) :
                               r.computed[j].flagType = "Receivable Growth"}}

\* (current - previous) / previous of a field present and non-zero in both
\* statements.
FractionalGrowth(field) ==
    Div(Int2Num(Val(statement[field]) - Val(previousStatements[1][field])),
        Int2Num(Val(previousStatements[1][field])))

\* C30: whenever the Receivable Growth indicator has score > 0, receivables
\* grew and their fractional growth exceeds the fractional revenue growth;
\* in particular a period in which both shrank is not flagged.
C30_FlagMeansReceivablesOutgrewSales ==
    Returned(fraudAnalysis) =>
        \A ind \in ReceivableIndicators(fraudAnalysis[1]) :
            ind.score > 0 =>
                /\ Gt(FractionalGrowth("accounts_receivable"), Int2Num(0))
                /\ Gt(FractionalGrowth("accounts_receivable"),
                      FractionalGrowth("revenue"))

DistinctPeriods(list) ==
    \A i, j \in 1..Len(list) : i # j => list[i].period # list[j].period

\* Every list with the elements of the given one, in any order.
Reorderings(list) ==
    {[i \in 1..Len(list) |-> list[p[i]]] : p \in Permutations(1..Len(list))}

\* C27: for statements with pairwise distinct period labels, every
\* reordering of the input list gives the same outcome of forecastRevenue
\* (labels, predicted revenues, intervals, growth rate, or the same error)
\* and the same trend from predictProfitabilityTrend.
C27_OrderOfInputIsIrrelevant ==
    DistinctPeriods(statements) =>
        /\ Returned(forecastResult) =>
              \A r \in Reorderings(statements) :
                  ForecastRevenue(r, periodsAhead) = forecastResult[1]
        /\ Returned(trendResult) =>
              \A r \in Reorderings(statements) :
                  PredictProfitabilityTrend(r).trend = trendResult[1].trend

\* Forecasts from three statements with distinct periods passed latest
\* first, with revenues 1, 4, 2 in period order.
C27_Witness ==
    /\ Returned(forecastResult)
    /\ ~forecastResult[1].threw
    /\ Len(forecastResult[1].forecasts) = 2
    /\ Len(statements) = 3
    /\ DistinctPeriods(statements)
    /\ statements[1].period = <<"1", "4", "0", "1">>
    /\ statements[1].revenue = <<2>>
    /\ statements[2].period = <<"1", "4", "0", "0", "-", "Q", "4">>
    /\ statements[2].revenue = <<4>>
    /\ statements[3].revenue = <<1>>

RunAlone(c) ==
    IF c.fn = "calculateWeightedScore"
    THEN CalculateWeightedScore(c.statement, c.previousStatements)
    ELSE FraudAnalyzeStatement(c.statement, c.previousStatements)

SameInput(c, d) ==
    /\ c.fn = d.fn
    /\ c.statement = d.statement
    /\ c.previousStatements = d.previousStatements

C26_InterleavedCallsReturnSoloResults ==
    (\A p, q \in DOMAIN calls : p # q => calls[p].statement # calls[q].statement) =>
        \A p \in DOMAIN calls :
            calls[p].stage = "done" => calls[p].result = <<RunAlone(calls[p])>>

\* Two calls, one of each entry point, both returned with different fraud
\* analyses, the first having resumed while the second was at its await.
C26_Witness ==
    /\ Len(calls) = 2
    /\ calls[1].stage = "done" /\ calls[2].stage = "done"
    /\ calls[1].interleaved
    /\ calls[1].fn = "calculateWeightedScore" /\ calls[2].fn = "analyzeStatement"
    /\ calls[1].fraudAnalysis # calls[2].fraudAnalysis

====
